---- MODULE Spec2Model ----
(***************************************************************************)
(* Model of the frame-synthesis core of mp3tovideo:                        *)
(*   - CacheManager            (src/core/cache_manager.py)                 *)
(*   - BackgroundManager       (src/core/video_generator.py)               *)
(*   - VideoGenerator          (src/core/video_generator.py)               *)
(* Each component has its own specification over the shared variables.     *)
(***************************************************************************)
EXTENDS Integers, Sequences, FiniteSets, TLC

\* Python None where a buffer is expected (get_* on a miss).
NoBuffer == 0 - 1

\* ------------------------------------------------------------------------
\* Bounds of the model
\* ------------------------------------------------------------------------
MaxSize == 2        \* largest max_size a CacheManager is built with
MaxCount == 1       \* cap on a recorded access count
MaxFrame == 2       \* spectrum frame numbers used as keys are 0..MaxFrame

\* ------------------------------------------------------------------------
\* State
\* ------------------------------------------------------------------------
\* CacheManager and its caller
VARIABLES max_size, spectrum_cache, bands_cache, image_cache, access_count,
          callerArg, callerRet

cacheVars == <<max_size, spectrum_cache, bands_cache, image_cache,
               access_count, callerArg, callerRet>>

\* BackgroundManager
VARIABLES background_paths,     \* len(self.background_paths)
          slideshow_enabled,
          slideshow_interval,   \* in milliseconds
          transition_duration,  \* in milliseconds
          bm_frame_rate,
          bm_frame_number,
          bm_result             \* what get_background_for_frame returned

slideVars == <<background_paths, slideshow_enabled, slideshow_interval,
               transition_duration, bm_frame_rate, bm_frame_number, bm_result>>

\* VideoGenerator
VARIABLES settings          \* the dictionary passed to VideoGenerator

VARIABLES gf_pc,            \* the statement generate_frame is at
          applied           \* the layer operations applied so far, in order

frameVars == <<gf_pc, applied>>

VARIABLES audio_frames,     \* int(audio_processor.get_duration() * frame_rate)
          preview_frames,   \* preview_seconds * frame_rate, 0 for None
          caller,           \* who called generate_frames
          vg_pc,            \* the statement the call is at
          start_frame, end_frame,
          end_arg,          \* the end_frame argument of the call
          frame_num, batch_start, batch_end, frames_generated,
          calls,            \* the frame numbers handed to generate_frame
          gf_return,        \* what generate_frames returned
          temp_dir,         \* self.temp_dir
          dir_exists,       \* the temporary frame directory is on disk
          encoder_log,      \* one record per ffmpeg.run invocation
          av_result,        \* what assemble_video returned
          gv_result,        \* what generate_video returned
          cancel_requested  \* the user has asked to cancel the run

videoVars == <<audio_frames, preview_frames, caller, vg_pc, start_frame,
               end_frame, end_arg, frame_num, batch_start, batch_end,
               frames_generated, calls, gf_return, temp_dir, dir_exists,
               encoder_log, av_result, gv_result, cancel_requested>>

loopVars == <<start_frame, end_frame, end_arg, frame_num, batch_start, batch_end,
              frames_generated, calls, gf_return>>
runVars == <<temp_dir, dir_exists, encoder_log, av_result, gv_result>>

\* AudioProcessor
VARIABLES ap_duration,       \* self.duration, in ticks of 1/60 s
          track_tempo,       \* the tempo beat_track finds in the track
          track_beats,       \* the beat times beat_track finds, in ticks
          ap_spectrum_cache, \* self._spectrum_cache
          stft_log,          \* one record per librosa.stft invocation
          ap_tempo,          \* self._tempo
          ap_beat_times,     \* self._beat_times
          ap_result          \* the outcome of the last call

audioVars == <<ap_duration, track_tempo, track_beats, ap_spectrum_cache,
               stft_log, ap_tempo, ap_beat_times, ap_result>>

\* The slideshow transitions of effects.py
VARIABLES tr_image1, tr_image2,  \* the two images handed to a transition
          tr_progress,           \* progress, in units of 1 / ProgressDen
          tr_applied,            \* the transition function that was called
          tr_result              \* the image it returned

transVars == <<tr_image1, tr_image2, tr_progress, tr_applied, tr_result>>

\* The files behind the background and logo paths, and their loading
VARIABLES bg_file,            \* the file settings['background_path'] names
          slide_files,        \* the files self.background_paths names
          background_fit,     \* settings['background_fit']
          bm_transition_type, \* self.transition_type
          cached_backgrounds, \* self.cached_backgrounds, by index of the path
          logo_file,          \* the file settings['logo_path'] names
          logo_text,          \* settings['logo_text'] is not empty
          cached_logo,        \* self._cached_logo is not None
          ld_pc,              \* where generate_frame is
          ld_background,      \* what _load_background returned
          ld_frame            \* the frame after the logo step

loadVars == <<bg_file, slide_files, background_fit, bm_transition_type,
              cached_backgrounds, logo_file, logo_text, cached_logo, ld_pc,
              ld_background, ld_frame>>

\* A visualizer and the bands of the frame it renders
VARIABLES vz_style,       \* the style VisualizerFactory.create was given
          vz_bands,       \* the bands argument of render
          vz_normalized   \* normalized_bands inside render

vizVars == <<vz_style, vz_bands, vz_normalized>>

\* Two VideoGenerator copies rendering the same frame
VARIABLES dt_shake_intensity,  \* settings['background_beat_shake_intensity']
          dt_beat_strength,    \* get_beat_strength for the frame
          dt_overlay,          \* settings['overlay_effect_type']
          dt_style,            \* settings['visualizer_style']
          dt_bands,            \* get_frame_bands for the frame
          dt_rain,             \* overlay_effect.particles of each copy
          dt_particles,        \* visualizer.particles of each copy
          dt_frame             \* the frame each copy produced

detVars == <<dt_shake_intensity, dt_beat_strength, dt_overlay, dt_style,
             dt_bands, dt_rain, dt_particles, dt_frame>>

\* One call of BaseVisualizer.get_color
VARIABLES gc_settings,    \* color_gradient and the colours of the settings
          gc_call,        \* index, total and magnitude (in units of
                          \* 1 / MagScale) of the call
          gc_color        \* the tuple the call returned

colorVars == <<gc_settings, gc_call, gc_color>>

\* One render call of a bar-style visualizer
VARIABLES br_style,       \* the class of the visualizer
          br_width,       \* self.width
          br_height,      \* self.height
          br_bands,       \* the bands argument of render
          br_drawn        \* the rectangles handed to draw.rectangle, by band

barVars == <<br_style, br_width, br_height, br_bands, br_drawn>>

\* A stateful overlay or visualizer over the frames of a run
VARIABLES ps_style,       \* the class of the overlay or visualizer
          ps_size,        \* <<self.width, self.height>>
          ps_bands,       \* the normalized bands render is given
          ps_draws,       \* the random values of the even and the odd calls
          ps_particles,   \* self.particles
          ps_calls        \* the calls of update or render made so far

particleVars == <<ps_style, ps_size, ps_bands, ps_draws, ps_particles,
                  ps_calls>>

\* The image mode of the frame along one generate_frame call
VARIABLES md_call,        \* frame_number and total_frames of the call
          md_pc,          \* the statement the call is at
          md_mode,        \* frame.mode
          md_ops          \* the pairs of modes handed to blend and composite

modeVars == <<md_call, md_pc, md_mode, md_ops>>

\* The main window and the QThreads it has started
VARIABLES mw_window,      \* the fields of MainWindow the handlers use
          mw_threads      \* the threads started and not yet handled

guiVars == <<mw_window, mw_threads>>

vars == <<cacheVars, slideVars, settings, frameVars, videoVars, audioVars,
          transVars, loadVars, vizVars, detVars, colorVars, barVars,
          particleVars, modeVars, guiVars>>

\* What the operations of one component leave alone.
nonCacheVars == <<slideVars, settings, frameVars, videoVars, audioVars,
                  transVars, loadVars, vizVars, detVars, colorVars, barVars,
                  particleVars, modeVars, guiVars>>
nonSlideVars == <<cacheVars, settings, frameVars, videoVars, audioVars,
                  transVars, loadVars, vizVars, detVars, colorVars, barVars,
                  particleVars, modeVars, guiVars>>
nonFrameVars == <<cacheVars, slideVars, videoVars, audioVars, transVars,
                  loadVars, vizVars, detVars, colorVars, barVars,
                  particleVars, modeVars, guiVars>>
nonVideoVars == <<cacheVars, slideVars, frameVars, audioVars, transVars,
                  loadVars, vizVars, detVars, colorVars, barVars,
                  particleVars, modeVars, guiVars>>
nonAudioVars == <<cacheVars, slideVars, settings, frameVars, videoVars,
                  transVars, loadVars, vizVars, detVars, colorVars, barVars,
                  particleVars, modeVars, guiVars>>
nonTransVars == <<cacheVars, slideVars, settings, frameVars, videoVars,
                  audioVars, loadVars, vizVars, detVars, colorVars, barVars,
                  particleVars, modeVars, guiVars>>
nonLoadVars == <<cacheVars, slideVars, settings, frameVars, videoVars,
                 audioVars, transVars, vizVars, detVars, colorVars, barVars,
                 particleVars, modeVars, guiVars>>
nonVizVars == <<cacheVars, slideVars, settings, frameVars, videoVars,
                audioVars, transVars, loadVars, detVars, colorVars, barVars,
                particleVars, modeVars, guiVars>>
nonDetVars == <<cacheVars, slideVars, settings, frameVars, videoVars,
                audioVars, transVars, loadVars, vizVars, colorVars, barVars,
                particleVars, modeVars, guiVars>>
nonColorVars == <<cacheVars, slideVars, settings, frameVars, videoVars,
                  audioVars, transVars, loadVars, vizVars, detVars, barVars,
                  particleVars, modeVars, guiVars>>
nonBarVars == <<cacheVars, slideVars, settings, frameVars, videoVars,
                audioVars, transVars, loadVars, vizVars, detVars, colorVars,
                particleVars, modeVars, guiVars>>
nonParticleVars == <<cacheVars, slideVars, settings, frameVars, videoVars,
                     audioVars, transVars, loadVars, vizVars, detVars,
                     colorVars, barVars, modeVars, guiVars>>
nonModeVars == <<cacheVars, slideVars, settings, frameVars, videoVars,
                 audioVars, transVars, loadVars, vizVars, detVars,
                 colorVars, barVars, particleVars, guiVars>>
nonGuiVars == <<cacheVars, slideVars, settings, frameVars, videoVars,
                audioVars, transVars, loadVars, vizVars, detVars, colorVars,
                barVars, particleVars, modeVars>>

\* ------------------------------------------------------------------------
\* CacheManager
\* ------------------------------------------------------------------------

NumBands == 64
SpectrumKeys == 0..MaxFrame
BandsKeys == {<<0, NumBands>>, <<1, NumBands>>}
ImageKeys == {"a.png", "b.png"}
Values == {0, 1}

\* A buffer is an object: its content and the holders that reference it.
\* Holders are the cache ("cache") and the caller's two references: the
\* buffer it passed to cache_* ("arg") and the buffer get_* returned ("ret").
NewBuffer(v, holder) == [val |-> v, refs |-> {holder}]

\* The mutation a missing copy() would be: the same object, one more holder.
SameObject(buf, holder) == [val |-> buf.val, refs |-> buf.refs \cup {holder}]

\* ndarray.copy() / Image.copy(): a fresh object with the same content.
Copy(buf, holder) == NewBuffer(buf.val, holder)

\* dict helpers: a dict is the sequence of its items in insertion order.
DictKeys(d) == {d[i].key : i \in 1..Len(d)}
DictIndex(d, k) == CHOOSE i \in 1..Len(d) : d[i].key = k
DictSet(d, k, b) ==
    IF k \in DictKeys(d)
    THEN [d EXCEPT ![DictIndex(d, k)] = [key |-> k, buf |-> b]]
    ELSE Append(d, [key |-> k, buf |-> b])

\* self._access_count.get(access_key, 0)
CountOf(counts, k) == IF k \in DOMAIN counts THEN counts[k] ELSE 0
CountPut(counts, k, n) == [x \in (DOMAIN counts) \cup {k} |->
                              IF x = k THEN n ELSE counts[x]]

\* The scan of _evict_lru: min_key is replaced only by a strictly smaller
\* count, so the first key of minimal count in iteration order wins.
\* Returns the index of min_key, 0 for min_key = NoBuffer.
RECURSIVE ScanMin(_, _, _, _, _)
ScanMin(cache, counts, i, min_idx, min_count) ==
    IF i > Len(cache) THEN min_idx
    ELSE LET count == CountOf(counts, cache[i].key)
         IN  IF min_idx = 0 \/ count < min_count
             THEN ScanMin(cache, counts, i + 1, i, count)
             ELSE ScanMin(cache, counts, i + 1, min_idx, min_count)

\* _evict_lru without the clean-up of the access count.
evict_lru_keep_count(cache, counts) ==
    IF Len(cache) = 0 THEN <<cache, counts>>
    ELSE LET i == ScanMin(cache, counts, 1, 0, 0)
         IN  IF i = 0 THEN <<cache, counts>>
             ELSE <<SelectSeq(cache, LAMBDA e : e.key # cache[i].key), counts>>

\* _evict_lru(cache): the pair <<cache, counts>> after the call, that is
\* after del cache[min_key] and self._access_count.pop(access_key, None).
evict_lru(cache, counts) ==
    IF Len(cache) = 0 THEN <<cache, counts>>
    ELSE LET i == ScanMin(cache, counts, 1, 0, 0)
         IN  IF i = 0 THEN <<cache, counts>>
             ELSE <<SelectSeq(cache, LAMBDA e : e.key # cache[i].key),
                    [x \in (DOMAIN counts) \ {cache[i].key} |-> counts[x]]>>

\* The body shared by cache_spectrum / cache_bands / cache_image.
CacheInsert(cache, counts, k, buf) ==
    LET ev == IF Len(cache) >= max_size THEN evict_lru(cache, counts)
              ELSE <<cache, counts>>
    IN  <<DictSet(ev[1], k, Copy(buf, "cache")), CountPut(ev[2], k, 0)>>

\* The caller hands a buffer of its own to cache_*; any earlier buffer it
\* held as "arg" is dropped.
DropRef(cache, holder) ==
    [i \in 1..Len(cache) |->
        [cache[i] EXCEPT !.buf.refs = cache[i].buf.refs \ {holder}]]
\* get_* returns Copy(stored): when that is the stored object itself, the
\* stored object gains the caller as a holder.
Returned(cache, k) == Copy(cache[DictIndex(cache, k)].buf, "ret")
AfterReturn(cache, k) ==
    LET r == Returned(cache, k)
    IN  IF "cache" \in r.refs THEN DictSet(DropRef(cache, "ret"), k, r)
        ELSE DropRef(cache, "ret")

cache_spectrum(frame_number, v) ==
    LET arg == NewBuffer(v, "arg")
        r == CacheInsert(DropRef(spectrum_cache, "arg"),
                         access_count.spectrum, frame_number, arg)
    IN  /\ spectrum_cache' = r[1]
        /\ access_count' = [access_count EXCEPT !.spectrum = r[2]]
        /\ bands_cache' = DropRef(bands_cache, "arg")
        /\ image_cache' = DropRef(image_cache, "arg")
        /\ callerArg' = v
        /\ UNCHANGED <<max_size, callerRet, nonCacheVars>>

cache_bands(frame_number, num_bands, v) ==
    LET key == <<frame_number, num_bands>>
        arg == NewBuffer(v, "arg")
        r == CacheInsert(DropRef(bands_cache, "arg"),
                         access_count.bands, key, arg)
    IN  /\ bands_cache' = r[1]
        /\ access_count' = [access_count EXCEPT !.bands = r[2]]
        /\ spectrum_cache' = DropRef(spectrum_cache, "arg")
        /\ image_cache' = DropRef(image_cache, "arg")
        /\ callerArg' = v
        /\ UNCHANGED <<max_size, callerRet, nonCacheVars>>

cache_image(image_path, v) ==
    LET arg == NewBuffer(v, "arg")
        r == CacheInsert(DropRef(image_cache, "arg"),
                         access_count.image, image_path, arg)
    IN  /\ image_cache' = r[1]
        /\ access_count' = [access_count EXCEPT !.image = r[2]]
        /\ spectrum_cache' = DropRef(spectrum_cache, "arg")
        /\ bands_cache' = DropRef(bands_cache, "arg")
        /\ callerArg' = v
        /\ UNCHANGED <<max_size, callerRet, nonCacheVars>>

get_spectrum(frame_number) ==
    IF frame_number \in DictKeys(spectrum_cache)
    THEN /\ CountOf(access_count.spectrum, frame_number) < MaxCount
         /\ access_count' = [access_count EXCEPT !.spectrum =
                CountPut(@, frame_number, CountOf(@, frame_number) + 1)]
         /\ callerRet' = Returned(spectrum_cache, frame_number).val
         /\ spectrum_cache' = AfterReturn(spectrum_cache, frame_number)
         /\ bands_cache' = DropRef(bands_cache, "ret")
         /\ image_cache' = DropRef(image_cache, "ret")
         /\ UNCHANGED <<max_size, callerArg, nonCacheVars>>
    ELSE /\ callerRet' = NoBuffer
         /\ spectrum_cache' = DropRef(spectrum_cache, "ret")
         /\ bands_cache' = DropRef(bands_cache, "ret")
         /\ image_cache' = DropRef(image_cache, "ret")
         /\ UNCHANGED <<max_size, access_count, callerArg, nonCacheVars>>

get_bands(frame_number, num_bands) ==
    LET key == <<frame_number, num_bands>>
    IN  IF key \in DictKeys(bands_cache)
        THEN /\ CountOf(access_count.bands, key) < MaxCount
             /\ access_count' = [access_count EXCEPT !.bands =
                    CountPut(@, key, CountOf(@, key) + 1)]
             /\ callerRet' = Returned(bands_cache, key).val
             /\ bands_cache' = AfterReturn(bands_cache, key)
             /\ spectrum_cache' = DropRef(spectrum_cache, "ret")
             /\ image_cache' = DropRef(image_cache, "ret")
             /\ UNCHANGED <<max_size, callerArg, nonCacheVars>>
        ELSE /\ callerRet' = NoBuffer
             /\ spectrum_cache' = DropRef(spectrum_cache, "ret")
             /\ bands_cache' = DropRef(bands_cache, "ret")
             /\ image_cache' = DropRef(image_cache, "ret")
             /\ UNCHANGED <<max_size, access_count, callerArg, nonCacheVars>>

get_image(image_path) ==
    IF image_path \in DictKeys(image_cache)
    THEN /\ CountOf(access_count.image, image_path) < MaxCount
         /\ access_count' = [access_count EXCEPT !.image =
                CountPut(@, image_path, CountOf(@, image_path) + 1)]
         /\ callerRet' = Returned(image_cache, image_path).val
         /\ image_cache' = AfterReturn(image_cache, image_path)
         /\ spectrum_cache' = DropRef(spectrum_cache, "ret")
         /\ bands_cache' = DropRef(bands_cache, "ret")
         /\ UNCHANGED <<max_size, callerArg, nonCacheVars>>
    ELSE /\ callerRet' = NoBuffer
         /\ spectrum_cache' = DropRef(spectrum_cache, "ret")
         /\ bands_cache' = DropRef(bands_cache, "ret")
         /\ image_cache' = DropRef(image_cache, "ret")
         /\ UNCHANGED <<max_size, access_count, callerArg, nonCacheVars>>

clear ==
    /\ spectrum_cache' = << >>
    /\ bands_cache' = << >>
    /\ image_cache' = << >>
    /\ access_count' = [spectrum |-> << >>, bands |-> << >>, image |-> << >>]
    /\ UNCHANGED <<max_size, callerArg, callerRet, nonCacheVars>>

\* The caller writes into a buffer it holds; every holder of that object
\* sees the new content.
WriteThrough(cache, holder, w) ==
    [i \in 1..Len(cache) |->
        IF holder \in cache[i].buf.refs
        THEN [cache[i] EXCEPT !.buf.val = w] ELSE cache[i]]

MutateArg(w) ==
    /\ callerArg # NoBuffer
    /\ callerArg # w
    /\ callerArg' = w
    /\ spectrum_cache' = WriteThrough(spectrum_cache, "arg", w)
    /\ bands_cache' = WriteThrough(bands_cache, "arg", w)
    /\ image_cache' = WriteThrough(image_cache, "arg", w)
    /\ UNCHANGED <<max_size, access_count, callerRet, nonCacheVars>>

MutateRet(w) ==
    /\ callerRet # NoBuffer
    /\ callerRet # w
    /\ callerRet' = w
    /\ spectrum_cache' = WriteThrough(spectrum_cache, "ret", w)
    /\ bands_cache' = WriteThrough(bands_cache, "ret", w)
    /\ image_cache' = WriteThrough(image_cache, "ret", w)
    /\ UNCHANGED <<max_size, access_count, callerArg, nonCacheVars>>

CacheInit ==
    /\ max_size \in 0..MaxSize
    /\ spectrum_cache = << >>
    /\ bands_cache = << >>
    /\ image_cache = << >>
    /\ access_count = [spectrum |-> << >>, bands |-> << >>, image |-> << >>]
    /\ callerArg = NoBuffer
    /\ callerRet = NoBuffer

\* ------------------------------------------------------------------------
\* BackgroundManager.get_background_for_frame
\* ------------------------------------------------------------------------
MaxSlideFrame == 330    \* frame numbers asked of the manager are 0..MaxSlideFrame
MaxPaths == 3           \* longest background_paths list

NoResult == [kind |-> "none", index |-> 0, next |-> 0, num |-> 0, den |-> 1]

\* `if cycle_position >= self.slideshow_interval` with > in place of >=.
InTransitionStrict(cycle_position, interval) == cycle_position > interval

\* `if cycle_position >= self.slideshow_interval`
InTransition(cycle_position, interval) == cycle_position >= interval

\* Times are exact rationals; every time is kept multiplied by
\* 1000 * frame_rate, so that frame_number / frame_rate seconds is the
\* integer 1000 * frame_number and d milliseconds is d * frame_rate.
BackgroundFor(n, enabled, interval_ms, duration_ms, rate, frame_no) ==
    IF n = 0 \/ ~enabled
    THEN [kind |-> "single", index |-> 0, next |-> 0, num |-> 0, den |-> 1]
    ELSE LET time_seconds == 1000 * frame_no
             interval == interval_ms * rate
             duration == duration_ms * rate
             total_interval == interval + duration
             cycle_position == time_seconds % total_interval
             slide_index == (time_seconds \div total_interval) % n
             next_slide_index == (slide_index + 1) % n
         IN  IF InTransition(cycle_position, interval)
             THEN [kind |-> "transition", index |-> slide_index,
                   next |-> next_slide_index,
                   num |-> cycle_position - interval, den |-> duration]
             ELSE [kind |-> "slide", index |-> slide_index, next |-> 0,
                   num |-> 0, den |-> 1]

get_background_for_frame ==
    /\ bm_result = NoResult
    /\ bm_result' = BackgroundFor(background_paths, slideshow_enabled,
                                  slideshow_interval, transition_duration,
                                  bm_frame_rate, bm_frame_number)
    /\ UNCHANGED <<background_paths, slideshow_enabled, slideshow_interval,
                   transition_duration, bm_frame_rate, bm_frame_number,
                   nonSlideVars>>

SlideInit ==
    /\ background_paths \in 0..MaxPaths
    /\ slideshow_enabled \in BOOLEAN
    /\ slideshow_interval \in {0, 1000, 10000}
    /\ transition_duration \in {0, 500, 1000}
    /\ slideshow_interval + transition_duration > 0
    /\ bm_frame_rate \in {24, 30}
    /\ bm_frame_number \in 0..MaxSlideFrame
    /\ bm_result = NoResult

\* ------------------------------------------------------------------------
\* VideoGenerator: the settings dictionary
\* ------------------------------------------------------------------------

BeatEffectTypes == {"pulse", "flash", "strobe", "zoom"}

\* SettingsManager.DEFAULT_SETTINGS, restricted to the keys VideoGenerator's
\* control flow reads; 'beat_effect_type' has its default from generate_frame.
DefaultSettings ==
    [background_beat_shake_enabled |-> FALSE,
     background_opacity |-> 100,
     background_animation |-> "none",
     visualizer_enabled |-> TRUE,
     visualizer_opacity |-> 100,
     beat_sync_enabled |-> FALSE,
     beat_effect_type |-> "pulse",
     strobe_enabled |-> FALSE,
     overlay_effect_type |-> "none",
     text_overlay |-> "",
     logo_path |-> "",
     quality_preset |-> "fast",
     use_multiprocessing |-> TRUE,
     use_hardware_acceleration |-> TRUE]

\* ------------------------------------------------------------------------
\* VideoGenerator.generate_frame, one step per layer
\* ------------------------------------------------------------------------

\* The statements of generate_frame in program order.
StepOrder == <<"background", "beat_shake", "background_opacity",
               "background_animation", "visualizer", "beat_effect",
               "strobe", "overlay", "text_overlay", "logo", "return">>

StepIndex(step) == CHOOSE i \in 1..Len(StepOrder) : StepOrder[i] = step

\* Program order with the overlay block moved in front of the two effect
\* blocks.
StepAfterOverlayFirst(step) ==
    CASE step = "visualizer" -> "overlay"
      [] step = "overlay" -> "beat_effect"
      [] step = "strobe" -> "text_overlay"
      [] OTHER -> StepOrder[StepIndex(step) + 1]

\* The statement that follows `step`.
StepAfter(step) == StepOrder[StepIndex(step) + 1]

\* `if self.settings.get('strobe_enabled', False)` without the
\* `and not beat_sync_enabled`.
StrobeRunsAlone(st) == st.strobe_enabled

\* `if self.settings.get('strobe_enabled', False) and not beat_sync_enabled`
StrobeRuns(st) == st.strobe_enabled /\ ~st.beat_sync_enabled

\* The if/elif chain on beat_effect_type.
BeatEffectOf(st) ==
    CASE st.beat_effect_type = "pulse" -> "apply_beat_pulse"
      [] st.beat_effect_type = "flash" -> "apply_beat_flash"
      [] st.beat_effect_type = "strobe" -> "apply_beat_strobe"
      [] st.beat_effect_type = "zoom" -> "apply_beat_zoom"

\* The condition under which the block at `step` runs; the beat effect
\* block is an if/elif chain on beat_effect_type, and OverlayFactory.create
\* returns None for 'none'.
StepRuns(step, st) ==
    CASE step = "background" -> TRUE
      [] step = "beat_shake" -> st.background_beat_shake_enabled
      [] step = "background_opacity" -> st.background_opacity < 100
      [] step = "background_animation" -> st.background_animation = "fade_in"
      [] step = "visualizer" -> st.visualizer_enabled
      [] step = "beat_effect" -> /\ st.beat_sync_enabled
                                 /\ st.beat_effect_type \in BeatEffectTypes
      [] step = "strobe" -> StrobeRuns(st)
      [] step = "overlay" -> st.overlay_effect_type # "none"
      [] step = "text_overlay" -> st.text_overlay # ""
      [] step = "logo" -> st.logo_path # ""

\* The operation the block at `step` applies to the frame.
LayerOf(step, st) ==
    CASE step = "background" -> "_load_background"
      [] step = "beat_shake" -> "apply_beat_shake"
      [] step = "background_opacity" -> "_apply_opacity"
      [] step = "background_animation" -> "apply_background_animation"
      [] step = "visualizer" -> "visualizer.render"
      [] step = "beat_effect" -> BeatEffectOf(st)
      [] step = "strobe" -> "apply_strobe"
      [] step = "overlay" -> "overlay_effect.render"
      [] step = "text_overlay" -> "_add_text_overlay"
      [] step = "logo" -> "_add_logo"

FrameStep(step) ==
    /\ gf_pc = step
    /\ applied' = IF StepRuns(step, settings)
                  THEN Append(applied, LayerOf(step, settings))
                  ELSE applied
    /\ gf_pc' = StepAfter(step)
    /\ UNCHANGED <<settings, nonFrameVars>>

\* Every settings snapshot over the keys the layer blocks test.
FrameSettings ==
    {[DefaultSettings EXCEPT
        !.background_beat_shake_enabled = shake,
        !.background_opacity = bgop,
        !.background_animation = anim,
        !.visualizer_enabled = vis,
        !.beat_sync_enabled = beat,
        !.beat_effect_type = btype,
        !.strobe_enabled = strobe,
        !.overlay_effect_type = overlay,
        !.text_overlay = text,
        !.logo_path = logo] :
        shake \in BOOLEAN, bgop \in {50, 100}, anim \in {"none", "fade_in"},
        vis \in BOOLEAN, beat \in BOOLEAN, btype \in BeatEffectTypes,
        strobe \in BOOLEAN, overlay \in {"none", "rain"},
        text \in {"", "title"}, logo \in {"", "logo.png"}}

FrameInit ==
    /\ gf_pc = "background"
    /\ applied = << >>

\* ------------------------------------------------------------------------
\* VideoGenerator.generate_frames, assemble_video, generate_video
\* ------------------------------------------------------------------------
MaxTotal == 33      \* largest int(duration * frame_rate) of an audio track
MaxStart == 2       \* start_frame arguments are 0..MaxStart

batch_size == 30
NoEnd == 0 - 1          \* end_frame = None
NoReturn == 0 - 1000    \* generate_frames has not returned
Min(a, b) == IF a < b THEN a ELSE b

\* generate_frames up to the choice of the path; use_multiprocessing is
\* the value after the quality_preset chain.
GF_Dispatch ==
    /\ vg_pc = "generate_frames"
    /\ LET total_frames == audio_frames
           end0 == IF end_frame = NoEnd THEN total_frames ELSE end_frame
           end1 == Min(end0, total_frames)
           use_multiprocessing ==
               CASE settings.quality_preset = "fast" -> TRUE
                 [] settings.quality_preset = "balanced" -> TRUE
                 [] settings.quality_preset = "high" -> FALSE
                 [] OTHER -> settings.use_multiprocessing
       IN  /\ end_frame' = end1
           /\ IF use_multiprocessing /\ (end1 - start_frame) > 30
              THEN /\ vg_pc' = "parallel_batch"
                   /\ batch_start' = start_frame
                   /\ frames_generated' = 0
                   /\ UNCHANGED frame_num
              ELSE /\ vg_pc' = "sequential_loop"
                   /\ frame_num' = start_frame
                   /\ UNCHANGED <<batch_start, frames_generated>>
    /\ UNCHANGED <<audio_frames, preview_frames, caller, start_frame, end_arg,
                   batch_end, calls, gf_return, runVars, cancel_requested,
                   settings,
                   nonVideoVars>>

\* Where control goes when generate_frames returns or raises.
AfterReturn_pc == IF caller = "generate_video" THEN "assemble_video"
                  ELSE "generate_frames_returned"
AfterRaise_pc == IF caller = "generate_video" THEN "except"
                 ELSE "generate_frames_raised"

\* One iteration of `for frame_num in range(start_frame, end_frame)`;
\* generate_frame or frame.save may raise.
Seq_GenerateFrame(ok) ==
    /\ vg_pc = "sequential_loop"
    /\ frame_num < end_frame
    /\ calls' = Append(calls, frame_num)
    /\ IF ok THEN /\ frame_num' = frame_num + 1
                  /\ UNCHANGED vg_pc
             ELSE /\ vg_pc' = AfterRaise_pc
                  /\ UNCHANGED frame_num
    /\ UNCHANGED <<audio_frames, preview_frames, caller, start_frame, end_arg,
                   end_frame, batch_start, batch_end, frames_generated,
                   gf_return, runVars, cancel_requested, settings,
                   nonVideoVars>>

Seq_Return ==
    /\ vg_pc = "sequential_loop"
    /\ ~(frame_num < end_frame)
    /\ gf_return' = end_frame - start_frame
    /\ vg_pc' = AfterReturn_pc
    /\ UNCHANGED <<audio_frames, preview_frames, caller, start_frame, end_arg,
                   end_frame, frame_num, batch_start, batch_end,
                   frames_generated, calls, runVars, cancel_requested,
                   settings,
                   nonVideoVars>>

\* `for batch_start in range(start_frame, end_frame, batch_size)`
Par_NextBatch ==
    /\ vg_pc = "parallel_batch"
    /\ batch_start < end_frame
    /\ batch_end' = Min(batch_start + batch_size, end_frame)
    /\ frame_num' = batch_start
    /\ vg_pc' = "parallel_loop"
    /\ UNCHANGED <<audio_frames, preview_frames, caller, start_frame, end_arg,
                   end_frame, batch_start, frames_generated, calls,
                   gf_return, runVars, cancel_requested, settings,
                   nonVideoVars>>

\* One iteration of `for frame_num in range(batch_start, batch_end)`.
Par_GenerateFrame(ok) ==
    /\ vg_pc = "parallel_loop"
    /\ frame_num < batch_end
    /\ calls' = Append(calls, frame_num)
    /\ IF ok THEN /\ frame_num' = frame_num + 1
                  /\ frames_generated' = frames_generated + 1
                  /\ UNCHANGED vg_pc
             ELSE /\ vg_pc' = AfterRaise_pc
                  /\ UNCHANGED <<frame_num, frames_generated>>
    /\ UNCHANGED <<audio_frames, preview_frames, caller, start_frame, end_arg,
                   end_frame, batch_start, batch_end, gf_return, runVars,
                   cancel_requested, settings,
                   nonVideoVars>>

Par_BatchDone ==
    /\ vg_pc = "parallel_loop"
    /\ ~(frame_num < batch_end)
    /\ batch_start' = batch_start + batch_size
    /\ vg_pc' = "parallel_batch"
    /\ UNCHANGED <<audio_frames, preview_frames, caller, start_frame, end_arg,
                   end_frame, frame_num, batch_end, frames_generated, calls,
                   gf_return, runVars, cancel_requested, settings,
                   nonVideoVars>>

Par_Return ==
    /\ vg_pc = "parallel_batch"
    /\ ~(batch_start < end_frame)
    /\ gf_return' = frames_generated
    /\ vg_pc' = AfterReturn_pc
    /\ UNCHANGED <<audio_frames, preview_frames, caller, start_frame, end_arg,
                   end_frame, frame_num, batch_start, batch_end,
                   frames_generated, calls, runVars, cancel_requested,
                   settings,
                   nonVideoVars>>

generate_frames_steps ==
    \/ GF_Dispatch
    \/ \E ok \in BOOLEAN : Seq_GenerateFrame(ok)
    \/ Seq_Return
    \/ Par_NextBatch
    \/ \E ok \in BOOLEAN : Par_GenerateFrame(ok)
    \/ Par_BatchDone
    \/ Par_Return

\* _cleanup_temp_dir that forgets the directory without removing it.
cleanup_forget_dir(td, exists, rm_ok) ==
    [temp_dir |-> "None", dir_exists |-> exists, raised |-> FALSE]

\* _cleanup_temp_dir; shutil.rmtree may raise and leave the directory.
cleanup_temp_dir(td, exists, rm_ok) ==
    IF td # "None" /\ exists
    THEN IF rm_ok
         THEN [temp_dir |-> "None", dir_exists |-> FALSE, raised |-> FALSE]
         ELSE [temp_dir |-> td, dir_exists |-> TRUE, raised |-> TRUE]
    ELSE [temp_dir |-> td, dir_exists |-> exists, raised |-> FALSE]

\* generate_video up to the call of generate_frames; tempfile.mkdtemp may
\* raise.
GV_Start(mk_ok) ==
    /\ vg_pc = "generate_video"
    /\ IF temp_dir = "None" /\ ~mk_ok
       THEN /\ vg_pc' = "except"
            /\ UNCHANGED <<temp_dir, dir_exists, start_frame, end_frame,
                           end_arg>>
       ELSE /\ temp_dir' = "spectrum_viz_"
            /\ dir_exists' = TRUE
            /\ start_frame' = 0
            /\ end_frame' = IF preview_frames # 0
                            THEN Min(audio_frames, preview_frames)
                            ELSE audio_frames
            /\ end_arg' = end_frame'
            /\ vg_pc' = "generate_frames"
    /\ UNCHANGED <<audio_frames, preview_frames, caller, frame_num,
                   batch_start, batch_end, frames_generated, calls,
                   gf_return, encoder_log, av_result, gv_result,
                   cancel_requested, settings,
                   nonVideoVars>>

\* The except branch of assemble_video that retries without touching the
\* settings.
RetrySettingsUntouched(st) == st

\* self.settings['use_hardware_acceleration'] = False
RetrySettings(st) == [st EXCEPT !.use_hardware_acceleration = FALSE]

\* One activation of assemble_video: ffmpeg.run succeeds or raises; on a
\* failure with use_hw_accel set the method calls itself again.
AV_RunEncoder(ok) ==
    /\ vg_pc = "assemble_video"
    /\ LET use_hw_accel == settings.use_hardware_acceleration
       IN  /\ encoder_log' = Append(encoder_log,
                                    [hw |-> use_hw_accel, ok |-> ok])
           /\ IF ok
              THEN /\ av_result' = "True"
                   /\ vg_pc' = "cleanup"
                   /\ UNCHANGED settings
              ELSE IF use_hw_accel
                   THEN /\ settings' = RetrySettings(settings)
                        /\ UNCHANGED <<av_result, vg_pc>>
                   ELSE /\ av_result' = "False"
                        /\ vg_pc' = "cleanup"
                        /\ UNCHANGED settings
    /\ UNCHANGED <<audio_frames, preview_frames, caller, loopVars, temp_dir,
                   dir_exists, gv_result, cancel_requested,
                   nonVideoVars>>

\* The cleanup after assemble_video and the return of its result.
GV_Cleanup(rm_ok) ==
    /\ vg_pc = "cleanup"
    /\ LET c == cleanup_temp_dir(temp_dir, dir_exists, rm_ok)
       IN  /\ temp_dir' = c.temp_dir
           /\ dir_exists' = c.dir_exists
           /\ IF c.raised
              THEN /\ vg_pc' = "except"
                   /\ UNCHANGED gv_result
              ELSE /\ vg_pc' = "generate_video_returned"
                   /\ gv_result' = av_result
    /\ UNCHANGED <<audio_frames, preview_frames, caller, loopVars,
                   encoder_log, av_result, cancel_requested, settings,
                   nonVideoVars>>

\* `except Exception`: cleanup and return False; an exception of the
\* cleanup itself leaves generate_video.
GV_Except(rm_ok) ==
    /\ vg_pc = "except"
    /\ LET c == cleanup_temp_dir(temp_dir, dir_exists, rm_ok)
       IN  /\ temp_dir' = c.temp_dir
           /\ dir_exists' = c.dir_exists
           /\ IF c.raised
              THEN /\ vg_pc' = "generate_video_raised"
                   /\ UNCHANGED gv_result
              ELSE /\ vg_pc' = "generate_video_returned"
                   /\ gv_result' = "False"
    /\ UNCHANGED <<audio_frames, preview_frames, caller, loopVars,
                   encoder_log, av_result, cancel_requested, settings,
                   nonVideoVars>>

\* The user asks to cancel while generate_video is generating frames.
RequestCancel ==
    /\ caller = "generate_video"
    /\ vg_pc \in {"generate_frames", "sequential_loop", "parallel_batch",
                  "parallel_loop"}
    /\ ~cancel_requested
    /\ cancel_requested' = TRUE
    /\ UNCHANGED <<audio_frames, preview_frames, caller, vg_pc, loopVars,
                   runVars, settings,
                   nonVideoVars>>

TotalChoices == (0..2) \cup ((batch_size + 1)..MaxTotal)

VideoCommonInit ==
    /\ frame_num = 0
    /\ batch_start = 0
    /\ batch_end = 0
    /\ frames_generated = 0
    /\ calls = << >>
    /\ gf_return = NoReturn
    /\ temp_dir = "None"
    /\ dir_exists = FALSE
    /\ encoder_log = << >>
    /\ av_result = "none"
    /\ gv_result = "none"
    /\ cancel_requested = FALSE

VideoSettings ==
    {[DefaultSettings EXCEPT
        !.quality_preset = q,
        !.use_hardware_acceleration = hw] :
        q \in {"fast", "balanced", "high"}, hw \in BOOLEAN}

\* ------------------------------------------------------------------------
\* AudioProcessor
\* ------------------------------------------------------------------------
MaxDuration == 10       \* track lengths are 1..MaxDuration ticks of 1/60 s
MaxQueryFrame == 12     \* frame numbers asked of the processor
MaxBeatTick == 8        \* beat times lie on ticks 0..MaxBeatTick

TicksPerSecond == 60
SamplesPerTick == 735   \* a 44100 Hz track
DefaultNFft == 2048
DefaultTempo == 120
SpectrumRates == {24, 30}
SpectrumFfts == {1024, 2048}
BeatRates == {30, 60}   \* rates at which a tick is a whole number of half frames

NoMatrix == [frames |-> 0 - 1, bins |-> 0 - 1, frame_rate |-> 0, n_fft |-> 0]
NoTempo == 0 - 1
NoBeats == {0 - 1}
NoCall == [op |-> "none", outcome |-> "none", frames |-> 0, bins |-> 0,
           index |-> 0, number |-> 0, flag |-> FALSE, beats |-> {},
           frame_rate |-> 0, n_fft |-> 0, frame_number |-> 0]

\* round(duration * frame_rate), halves going to the even neighbour.
NumFramesRounded(d, frame_rate) ==
    LET num == d * frame_rate
        q == num \div TicksPerSecond
        r == num % TicksPerSecond
    IN  IF 2 * r < TicksPerSecond THEN q
        ELSE IF 2 * r > TicksPerSecond THEN q + 1
        ELSE IF q % 2 = 0 THEN q ELSE q + 1

\* int(duration * frame_rate)
NumFrames(d, frame_rate) == (d * frame_rate) \div TicksPerSecond

\* compute_spectrum as a function of the object's state and its arguments:
\* the matrix returned and whether librosa.stft was run for it.  The cached
\* matrix is returned whenever there is one; otherwise the transform of the
\* samples has 1 + samples // hop_length columns, which np.interp resamples
\* to num_frames columns.
SpectrumCall(cached, d, frame_rate, n_fft) ==
    LET samples == d * SamplesPerTick
        num_frames == NumFrames(d, frame_rate)
        hop_length == IF num_frames > 0 THEN samples \div num_frames ELSE 512
        columns == 1 + (samples \div hop_length)
        magnitude == [frames |-> IF columns # num_frames THEN num_frames
                                 ELSE columns,
                      bins |-> (n_fft \div 2) + 1,
                      frame_rate |-> frame_rate, n_fft |-> n_fft]
    IN  IF cached # NoMatrix
        THEN [matrix |-> cached, ran |-> FALSE]
        ELSE [matrix |-> magnitude, ran |-> TRUE]

StftLogAfter(call, frame_rate, n_fft) ==
    IF call.ran
    THEN Append(stft_log, [frame_rate |-> frame_rate, n_fft |-> n_fft])
    ELSE stft_log

compute_spectrum(frame_rate, n_fft) ==
    /\ LET call == SpectrumCall(ap_spectrum_cache, ap_duration, frame_rate, n_fft)
       IN  /\ ap_spectrum_cache' = call.matrix
           /\ stft_log' = StftLogAfter(call, frame_rate, n_fft)
           /\ ap_result' = [NoCall EXCEPT !.op = "compute_spectrum",
                                          !.outcome = "return",
                                          !.frames = call.matrix.frames,
                                          !.bins = call.matrix.bins,
                                          !.frame_rate = frame_rate,
                                          !.n_fft = n_fft]
    /\ UNCHANGED <<ap_duration, track_tempo, track_beats, ap_tempo,
                   ap_beat_times, nonAudioVars>>

\* The clamp `if frame_number >= size: frame_number = size - 1` followed by
\* numpy indexing of an axis of that size: negative indices count from the
\* end, anything else outside the axis raises IndexError.
FrameQueryResult(op, frame_number, frame_rate, frames, width) ==
    LET i == IF frame_number >= frames THEN frames - 1 ELSE frame_number
        at == IF i >= 0 /\ i < frames THEN [raised |-> FALSE, index |-> i]
              ELSE IF i < 0 /\ i >= 0 - frames
                   THEN [raised |-> FALSE, index |-> frames + i]
                   ELSE [raised |-> TRUE, index |-> 0]
    IN  [NoCall EXCEPT !.op = op,
                       !.outcome = IF at.raised THEN "raise" ELSE "return",
                       !.frames = frames,
                       !.bins = IF at.raised THEN 0 ELSE width,
                       !.index = at.index,
                       !.frame_rate = frame_rate,
                       !.frame_number = frame_number]

get_frame_spectrum(frame_number, frame_rate) ==
    /\ LET call == SpectrumCall(ap_spectrum_cache, ap_duration, frame_rate,
                                DefaultNFft)
       IN  /\ ap_spectrum_cache' = call.matrix
           /\ stft_log' = StftLogAfter(call, frame_rate, DefaultNFft)
           /\ ap_result' = FrameQueryResult("get_frame_spectrum", frame_number,
                                            frame_rate, call.matrix.frames,
                                            call.matrix.bins)
    /\ UNCHANGED <<ap_duration, track_tempo, track_beats, ap_tempo,
                   ap_beat_times, nonAudioVars>>

\* get_frequency_bands builds one row of num_bands entries per spectrum column.
get_frame_bands(frame_number, num_bands, frame_rate) ==
    /\ LET call == SpectrumCall(ap_spectrum_cache, ap_duration, frame_rate,
                                DefaultNFft)
       IN  /\ ap_spectrum_cache' = call.matrix
           /\ stft_log' = StftLogAfter(call, frame_rate, DefaultNFft)
           /\ ap_result' = FrameQueryResult("get_frame_bands", frame_number,
                                            frame_rate, call.matrix.frames,
                                            num_bands)
    /\ UNCHANGED <<ap_duration, track_tempo, track_beats, ap_tempo,
                   ap_beat_times, nonAudioVars>>

\* detect_beats as a function of the object's state: ok tells whether
\* librosa.beat.beat_track returned; when it raises nothing is assigned and
\* the exception leaves detect_beats.
DetectBeats(tempo, beat_times, ok) ==
    IF tempo # NoTempo /\ beat_times # NoBeats
    THEN [raised |-> FALSE, tempo |-> tempo, beat_times |-> beat_times]
    ELSE IF ok
         THEN [raised |-> FALSE, tempo |-> track_tempo,
               beat_times |-> track_beats]
         ELSE [raised |-> TRUE, tempo |-> tempo, beat_times |-> beat_times]

Raised(op) == [NoCall EXCEPT !.op = op, !.outcome = "raise"]

\* if self._beat_times is None: self.detect_beats()
BeatTimesCall(ok) ==
    IF ap_beat_times = NoBeats
    THEN DetectBeats(ap_tempo, ap_beat_times, ok)
    ELSE [raised |-> FALSE, tempo |-> ap_tempo, beat_times |-> ap_beat_times]

\* return self._beat_times if self._beat_times is not None else np.array([])
BeatTimesOf(beat_times) == IF beat_times = NoBeats THEN {} ELSE beat_times

detect_beats(ok) ==
    /\ LET call == DetectBeats(ap_tempo, ap_beat_times, ok)
       IN  /\ ap_tempo' = call.tempo
           /\ ap_beat_times' = call.beat_times
           /\ ap_result' = IF call.raised THEN Raised("detect_beats")
                           ELSE [NoCall EXCEPT !.op = "detect_beats",
                                               !.outcome = "return",
                                               !.number = call.tempo,
                                               !.beats = call.beat_times]
    /\ UNCHANGED <<ap_duration, track_tempo, track_beats, ap_spectrum_cache,
                   stft_log, nonAudioVars>>

get_tempo(ok) ==
    /\ LET call == IF ap_tempo = NoTempo
                   THEN DetectBeats(ap_tempo, ap_beat_times, ok)
                   ELSE [raised |-> FALSE, tempo |-> ap_tempo,
                         beat_times |-> ap_beat_times]
       IN  /\ ap_tempo' = call.tempo
           /\ ap_beat_times' = call.beat_times
           /\ ap_result' = IF call.raised THEN Raised("get_tempo")
                           ELSE [NoCall EXCEPT
                                   !.op = "get_tempo",
                                   !.outcome = "return",
                                   !.number = IF call.tempo # 0
                                                 /\ call.tempo # NoTempo
                                              THEN call.tempo
                                              ELSE DefaultTempo]
    /\ UNCHANGED <<ap_duration, track_tempo, track_beats, ap_spectrum_cache,
                   stft_log, nonAudioVars>>

get_beat_times(ok) ==
    /\ LET call == BeatTimesCall(ok)
       IN  /\ ap_tempo' = call.tempo
           /\ ap_beat_times' = call.beat_times
           /\ ap_result' = IF call.raised THEN Raised("get_beat_times")
                           ELSE [NoCall EXCEPT
                                   !.op = "get_beat_times",
                                   !.outcome = "return",
                                   !.beats = BeatTimesOf(call.beat_times)]
    /\ UNCHANGED <<ap_duration, track_tempo, track_beats, ap_spectrum_cache,
                   stft_log, nonAudioVars>>

\* abs(frame_time - beat_time) * frame_rate, in half frames.
HalfFrames(frame_number, frame_rate, beat_time) ==
    LET x == TicksPerSecond * frame_number - beat_time * frame_rate
    IN  (IF x < 0 THEN 0 - x ELSE x) \div (TicksPerSecond \div 2)

DefaultTolerance == 2

is_beat_frame(frame_number, frame_rate, tolerance, ok) ==
    /\ LET call == BeatTimesCall(ok)
           beat_times == BeatTimesOf(call.beat_times)
       IN  /\ ap_tempo' = call.tempo
           /\ ap_beat_times' = call.beat_times
           /\ ap_result' =
                 IF call.raised THEN Raised("is_beat_frame")
                 ELSE [NoCall EXCEPT
                         !.op = "is_beat_frame",
                         !.outcome = "return",
                         !.frame_rate = frame_rate,
                         !.frame_number = frame_number,
                         !.flag = \E b \in beat_times :
                                     HalfFrames(frame_number, frame_rate, b)
                                         <= 2 * tolerance]
    /\ UNCHANGED <<ap_duration, track_tempo, track_beats, ap_spectrum_cache,
                   stft_log, nonAudioVars>>

\* Strengths are fixed-point numbers with StrengthScale standing for 1.0.
StrengthScale == 10000
HalfFrameDecay == 8465      \* exp(-1/6), the decay over half a frame

\* np.exp(-frame_diff / 3.0) for a distance of h half frames.
RECURSIVE ExpDecay(_)
ExpDecay(h) ==
    IF h = 0 THEN StrengthScale
    ELSE (ExpDecay(h - 1) * HalfFrameDecay) \div StrengthScale

WithinDecayInclusive(h) == h <= 2 * 10

\* if frame_diff < 10
WithinDecay(h) == h < 2 * 10

\* np.min(np.abs(beat_times - frame_time)) * frame_rate, in half frames.
MinHalfFrames(frame_number, frame_rate, beat_times) ==
    LET ds == {HalfFrames(frame_number, frame_rate, b) : b \in beat_times}
    IN  CHOOSE m \in ds : \A x \in ds : m <= x

BeatStrength(frame_number, frame_rate, beat_times) ==
    IF beat_times = {} THEN 0
    ELSE LET frame_diff == MinHalfFrames(frame_number, frame_rate, beat_times)
             strength == ExpDecay(frame_diff)
         IN  IF WithinDecay(frame_diff)
             THEN IF strength < 0 THEN 0                    \* np.clip
                  ELSE IF strength > StrengthScale THEN StrengthScale
                  ELSE strength
             ELSE 0

get_beat_strength(frame_number, frame_rate, ok) ==
    /\ LET call == BeatTimesCall(ok)
       IN  /\ ap_tempo' = call.tempo
           /\ ap_beat_times' = call.beat_times
           /\ ap_result' =
                 IF call.raised THEN Raised("get_beat_strength")
                 ELSE [NoCall EXCEPT
                         !.op = "get_beat_strength",
                         !.outcome = "return",
                         !.frame_rate = frame_rate,
                         !.frame_number = frame_number,
                         !.number = BeatStrength(frame_number, frame_rate,
                                                 BeatTimesOf(call.beat_times))]
    /\ UNCHANGED <<ap_duration, track_tempo, track_beats, ap_spectrum_cache,
                   stft_log, nonAudioVars>>

SpectrumQueryFrames == (0 - 7)..7
BeatQueryFrames == (0 - 1)..MaxQueryFrame

\* AudioProcessor.__init__ followed by load_audio of some track.
AudioInit ==
    /\ ap_duration \in 1..MaxDuration
    /\ track_tempo \in {0, 90}
    /\ track_beats \in SUBSET {0, MaxBeatTick \div 2, MaxBeatTick}
    /\ ap_spectrum_cache = NoMatrix
    /\ stft_log = <<>>
    /\ ap_tempo = NoTempo
    /\ ap_beat_times = NoBeats
    /\ ap_result = NoCall

\* ------------------------------------------------------------------------
\* Images and the slideshow transitions (effects.py)
\* ------------------------------------------------------------------------
\* An image is one row of pixels: its mode, the colour value of each pixel
\* and, for RGBA, the alpha of each pixel.
CanvasWidth == 2        \* video_width, in pixels
ProgressDen == 4        \* progress values are the multiples of 1/ProgressDen

NoImage == [mode |-> "none", px |-> <<>>, alpha |-> <<>>]
Opaque == 255

\* Image.new('RGB', (width, height), (0, 0, 0))
BlackImage(width) ==
    [mode |-> "RGB", px |-> [i \in 1..width |-> 0], alpha |-> <<>>]

\* image.convert(mode)
Convert(image, mode) ==
    IF image.mode = mode THEN image
    ELSE IF mode = "RGBA"
         THEN [mode |-> "RGBA", px |-> image.px,
               alpha |-> [i \in 1..Len(image.px) |-> Opaque]]
         ELSE [mode |-> "RGB", px |-> image.px, alpha |-> <<>>]

\* Image.blend: (UINT8)(in1 + alpha * (in2 - in1)) on every channel.
Blend(image1, image2, num) ==
    [mode |-> image1.mode,
     px |-> [i \in 1..Len(image1.px) |->
                (image1.px[i] * ProgressDen
                   + num * (image2.px[i] - image1.px[i])) \div ProgressDen],
     alpha |-> image1.alpha]

\* The same with the two images taken in the wrong order.
apply_fade_transition_swapped(image1, image2, num) ==
    IF num <= 0 THEN image2
    ELSE IF num >= ProgressDen THEN image1
    ELSE Blend(Convert(image2, "RGB"), Convert(image1, "RGB"), num)

apply_fade_transition(image1, image2, num) ==
    IF num <= 0 THEN image1
    ELSE IF num >= ProgressDen THEN image2
    ELSE Blend(Convert(image1, "RGB"), Convert(image2, "RGB"), num)

apply_crossfade_transition(image1, image2, num) ==
    apply_fade_transition(image1, image2, num)

\* result.paste(image, (pos, 0)) without a mask: pixels and alpha are copied
\* where the pasted image covers the result.
Paste(result, image, pos) ==
    LET covered(i) == (i - pos) >= 1 /\ (i - pos) <= Len(image.px)
    IN  [mode |-> result.mode,
         px |-> [i \in 1..Len(result.px) |->
                    IF covered(i) THEN image.px[i - pos] ELSE result.px[i]],
         alpha |-> IF result.mode = "RGBA"
                   THEN [i \in 1..Len(result.px) |->
                           IF ~covered(i) THEN result.alpha[i]
                           ELSE IF image.mode = "RGBA"
                           THEN image.alpha[i - pos]
                           ELSE Opaque]
                   ELSE <<>>]

\* direction 'left': pos1 = int(-width * progress),
\* pos2 = int(width * (1 - progress)); the result starts as
\* Image.new('RGBA', (width, height)), transparent black.
apply_slide_transition(image1, image2, num) ==
    IF num <= 0 THEN image1
    ELSE IF num >= ProgressDen THEN image2
    ELSE LET width == Len(image1.px)
             pos1 == 0 - ((width * num) \div ProgressDen)
             pos2 == (width * (ProgressDen - num)) \div ProgressDen
             result == [mode |-> "RGBA", px |-> [i \in 1..width |-> 0],
                        alpha |-> [i \in 1..width |-> 0]]
             first == Paste(result, Convert(image1, "RGBA"), pos1)
         IN  Convert(Paste(first, Convert(image2, "RGBA"), pos2), "RGB")

\* image.resize((new_width, new_height)), each target pixel taking the
\* source pixel under it.
Resize(image, new_width) ==
    LET width == Len(image.px)
        under(i) == (((i - 1) * width) \div new_width) + 1
    IN  [mode |-> image.mode,
         px |-> [i \in 1..new_width |-> image.px[under(i)]],
         alpha |-> IF image.mode = "RGBA"
                   THEN [i \in 1..new_width |-> image.alpha[under(i)]]
                   ELSE <<>>]

\* image1 is resized and cropped back to the canvas by
\* image.crop((left, top, left + width, top + height)).
apply_zoom_transition(image1, image2, num) ==
    IF num <= 0 THEN image1
    ELSE IF num >= ProgressDen THEN image2
    ELSE LET width == Len(image1.px)
             new_width == (width * (ProgressDen + num)) \div ProgressDen
             left == (new_width - width) \div 2
             resized == Resize(image1, new_width)
             zoomed1 ==
                 [mode |-> resized.mode,
                  px |-> [i \in 1..width |-> resized.px[left + i]],
                  alpha |-> IF resized.mode = "RGBA"
                            THEN [i \in 1..width |-> resized.alpha[left + i]]
                            ELSE <<>>]
         IN  apply_fade_transition(zoomed1, image2, num)

\* BackgroundManager._apply_transition
ApplyTransition(transition_type, image1, image2, num) ==
    IF transition_type \in {"fade", "crossfade"}
    THEN apply_crossfade_transition(image1, image2, num)
    ELSE IF transition_type = "slide"
    THEN apply_slide_transition(image1, image2, num)
    ELSE IF transition_type = "zoom"
    THEN apply_zoom_transition(image1, image2, num)
    ELSE IF transition_type = "instant"
    THEN (IF 2 * num > ProgressDen THEN image2 ELSE image1)
    ELSE apply_fade_transition(image1, image2, num)

\* One call of _apply_transition on the two backgrounds of a transition.
apply_transition(transition_type) ==
    /\ tr_applied = "none"
    /\ tr_applied' = transition_type
    /\ tr_result' = ApplyTransition(transition_type, tr_image1, tr_image2,
                                    tr_progress)
    /\ UNCHANGED <<tr_image1, tr_image2, tr_progress, nonTransVars>>

\* The backgrounds the manager hands to a transition: RGB images of the
\* canvas size (_load_and_process_background converts every file to RGB).
BackgroundImages ==
    {[mode |-> "RGB", px |-> px, alpha |-> <<>>] :
        px \in [1..CanvasWidth -> {0, 100, 255}]}

\* ------------------------------------------------------------------------
\* Loading of background and logo files
\* ------------------------------------------------------------------------
MaxSlides == 2          \* most paths in background_paths

\* What a path names: nothing (the empty string), no file, a file that
\* Image.open or convert rejects, or a readable image.
FileStates == {"absent", "unreadable", "valid"}
CacheLimit == 10

\* The image Image.open(path).convert('RGB') reads from the k-th file: k + 1
\* pixels wide, so never of the canvas size by itself.
FileImage(k) ==
    [mode |-> "RGB", px |-> [i \in 1..(k + 1) |-> 10 * k + i], alpha |-> <<>>]

\* tiled.paste(image, (x, y)) for x in range(0, canvas_width, img_width)
RECURSIVE Tile(_, _, _)
Tile(canvas, image, x) ==
    IF x >= Len(canvas.px) THEN canvas
    ELSE Tile(Paste(canvas, image, x), image, x + Len(image.px))

fit_background(image, canvas_width, mode) ==
    IF mode = "tile"
    THEN Tile(BlackImage(canvas_width), image, 0)
    ELSE IF mode = "center"
    THEN LET new_width == (Len(image.px) * canvas_width) \div Len(image.px)
             x_offset == (canvas_width - new_width) \div 2
         IN  Paste(BlackImage(canvas_width), Resize(image, new_width), x_offset)
    ELSE Resize(image, canvas_width)

LoadAndProcessUncaught(file, k, mode) ==
    IF file = "valid"
    THEN [raised |-> FALSE,
          image |-> fit_background(FileImage(k), CanvasWidth, mode)]
    ELSE [raised |-> TRUE, image |-> NoImage]

\* _load_and_process_background: Image.open raises for a file that is absent
\* or unreadable, and the handler substitutes a black canvas.  The bw, blur
\* and vignette effects keep size and mode; their arithmetic is left out.
LoadAndProcess(file, k, mode) ==
    IF file = "valid"
    THEN [raised |-> FALSE,
          image |-> fit_background(FileImage(k), CanvasWidth, mode)]
    ELSE [raised |-> FALSE, image |-> BlackImage(CanvasWidth)]

\* _load_background_by_index: the image and the cache after the call.
LoadByIndex(files, cache, index, mode) ==
    IF Len(files) = 0 \/ index >= Len(files)
    THEN [raised |-> FALSE, image |-> BlackImage(CanvasWidth), cache |-> cache]
    ELSE IF cache[index + 1] # NoImage
    THEN [raised |-> FALSE, image |-> cache[index + 1], cache |-> cache]
    ELSE LET bg == LoadAndProcess(files[index + 1], index + 1, mode)
         IN  [raised |-> bg.raised, image |-> bg.image,
              cache |-> IF ~bg.raised /\ Len(files) <= CacheLimit
                        THEN [cache EXCEPT ![index + 1] = bg.image]
                        ELSE cache]

\* BackgroundManager.get_background_for_frame, images included.  Without a
\* slideshow it is _load_single_background, which gives a black canvas for
\* an empty or missing path; progress is a multiple of 1 / ProgressDen.
GetBackground(frame_no) ==
    LET shown == BackgroundFor(Len(slide_files), slideshow_enabled,
                               slideshow_interval, transition_duration,
                               bm_frame_rate, frame_no)
    IN  IF shown.kind = "single"
        THEN LET bg == IF bg_file \in {"empty", "absent"}
                       THEN [raised |-> FALSE,
                             image |-> BlackImage(CanvasWidth)]
                       ELSE LoadAndProcess(bg_file, 0, background_fit)
             IN  [raised |-> bg.raised, image |-> bg.image,
                  cache |-> cached_backgrounds]
        ELSE IF shown.kind = "slide"
        THEN LoadByIndex(slide_files, cached_backgrounds, shown.index,
                         background_fit)
        ELSE LET bg1 == LoadByIndex(slide_files, cached_backgrounds,
                                    shown.index, background_fit)
                 bg2 == LoadByIndex(slide_files, bg1.cache, shown.next,
                                    background_fit)
             IN  IF bg1.raised \/ bg2.raised
                 THEN [raised |-> TRUE, image |-> NoImage, cache |-> bg2.cache]
                 ELSE [raised |-> FALSE,
                       image |-> ApplyTransition(bm_transition_type, bg1.image,
                                                 bg2.image,
                                                 (shown.num * ProgressDen)
                                                     \div shown.den),
                       cache |-> bg2.cache]

NoFrame == [image |-> NoImage, logo |-> "none", raised |-> FALSE]

\* video_background.get_frame_at_frame_number(.., (self.width, self.height))
VideoFrame == Resize(FileImage(MaxSlides + 1), CanvasWidth)

\* VideoGenerator._load_background at the head of generate_frame.  video
\* tells what the video background gave: there is none, a frame, None, or
\* an exception (caught and logged).
load_background(frame_no, video) ==
    /\ ld_pc = "load_background"
    /\ IF video = "frame"
       THEN /\ ld_background' = [image |-> VideoFrame, logo |-> "none",
                                 raised |-> FALSE]
            /\ UNCHANGED cached_backgrounds
       ELSE LET bg == GetBackground(frame_no)
            IN  /\ ld_background' = [image |-> bg.image, logo |-> "none",
                                     raised |-> bg.raised]
                /\ cached_backgrounds' = bg.cache
    /\ ld_pc' = "add_logo"
    /\ ld_frame' = NoFrame
    /\ UNCHANGED <<bg_file, slide_files, background_fit, bm_transition_type,
                   logo_file, logo_text, cached_logo, nonLoadVars>>

\* _add_logo: the frame it returns and whether a logo is cached afterwards.
add_logo(frame, file, text, cached) ==
    IF text
    THEN [frame |-> [frame EXCEPT !.image = Convert(frame.image, "RGBA"),
                                  !.logo = "text"],
          cached |-> cached]
    ELSE IF file \in {"empty", "absent"}
    THEN [frame |-> frame, cached |-> cached]
    ELSE IF cached \/ file = "valid"
    THEN [frame |-> [frame EXCEPT !.image = Convert(frame.image, "RGBA"),
                                  !.logo = "image"],
          cached |-> TRUE]
    ELSE [frame |-> frame, cached |-> cached]

\* _calculate_logo_position(logo_width, logo_height, position) on a canvas of
\* width by height pixels; position is the name after lower() and the
\* replacement of blanks by hyphens.
calculate_logo_position(width, height, logo_width, logo_height, position) ==
    LET margin == 20
    IN  CASE position = "top-left" -> <<margin, margin>>
          [] position = "top-center" ->
                <<(width - logo_width) \div 2, margin>>
          [] position = "top-right" -> <<width - logo_width - margin, margin>>
          [] position = "middle-left" ->
                <<margin, (height - logo_height) \div 2>>
          [] position = "middle-right" ->
                <<width - logo_width - margin, (height - logo_height) \div 2>>
          [] position = "bottom-left" ->
                <<margin, height - logo_height - margin>>
          [] position = "bottom-center" ->
                <<(width - logo_width) \div 2, height - logo_height - margin>>
          [] position = "bottom-right" ->
                <<width - logo_width - margin, height - logo_height - margin>>
          [] OTHER -> <<width - logo_width - margin, margin>>

\* The logo step at the end of generate_frame and its return.
GF_AddLogo ==
    /\ ld_pc = "add_logo"
    /\ IF ld_background.raised
       THEN /\ ld_frame' = [NoFrame EXCEPT !.raised = TRUE]
            /\ UNCHANGED cached_logo
       ELSE IF logo_file = "empty"
       THEN /\ ld_frame' = ld_background
            /\ UNCHANGED cached_logo
       ELSE LET done == add_logo(ld_background, logo_file, logo_text,
                                 cached_logo)
            IN  /\ ld_frame' = done.frame
                /\ cached_logo' = done.cached
    /\ ld_pc' = "returned"
    /\ UNCHANGED <<bg_file, slide_files, background_fit, bm_transition_type,
                   cached_backgrounds, logo_file, logo_text, ld_background,
                   nonLoadVars>>

\* The next generate_frame call of the run.
GF_NextCall ==
    /\ ld_pc = "returned"
    /\ ~ld_frame.raised
    /\ ld_pc' = "load_background"
    /\ UNCHANGED <<bg_file, slide_files, background_fit, bm_transition_type,
                   cached_backgrounds, logo_file, logo_text, cached_logo,
                   ld_background, ld_frame, nonLoadVars>>

\* ------------------------------------------------------------------------
\* Visualizers: normalization of the bands of a frame (visualizers.py)
\* ------------------------------------------------------------------------
MaxBands == 3           \* most bands in one frame
MaxMagnitude == 3       \* band magnitudes are 0..MaxMagnitude

\* Normalized magnitudes are fixed-point numbers, NormScale standing for 1.0.
NormScale == 1000

\* np.max(bands)
RECURSIVE MaxOf(_)
MaxOf(bands) ==
    IF Len(bands) = 1 THEN bands[1]
    ELSE LET rest == MaxOf(Tail(bands))
         IN  IF bands[1] > rest THEN bands[1] ELSE rest

NormalizeAboveMax(bands) ==
    [i \in 1..Len(bands) |-> (bands[i] * NormScale) \div (MaxOf(bands) + 1)]

\* if np.max(bands) > 0: normalized_bands = bands / np.max(bands)
\* else: normalized_bands = bands
Normalize(bands) ==
    IF MaxOf(bands) > 0
    THEN [i \in 1..Len(bands) |-> (bands[i] * NormScale) \div MaxOf(bands)]
    ELSE [i \in 1..Len(bands) |-> bands[i] * NormScale]

\* The normalization at the head of render; it is the same statement in the
\* render method of each of the eleven visualizer classes.
render_normalize ==
    /\ vz_normalized = <<>>
    /\ vz_normalized' = Normalize(vz_bands)
    /\ UNCHANGED <<vz_style, vz_bands, nonVizVars>>

\* ------------------------------------------------------------------------
\* The colour gradients of BaseVisualizer (visualizers.py)
\* ------------------------------------------------------------------------
\* A magnitude is a multiple of 1 / MagScale in [0, 1]; the thresholds of the
\* gradients (0.25, 0.33, 0.5, 0.66, 0.75) are such multiples.  The float
\* expressions are evaluated as exact fractions, and int() cuts the
\* fraction towards zero.

MagScale == 100

NoColor == << >>

\* The colours settings.get falls back to
GradientDefaults ==
    [color_gradient |-> "frequency-based",
     custom_color_start |-> <<255, 0, 255>>,
     custom_color_end |-> <<0, 255, 255>>,
     monochrome_color |-> <<255, 255, 255>>]

\* int(n / d)
Trunc(n, d) == IF n >= 0 THEN n \div d ELSE 0 - ((0 - n) \div d)

\* _frequency_based_color with the green of the lowest third rounded to the
\* nearest integer.
frequency_based_color_rounded(index, total) ==
    IF 3 * index < total
    THEN <<255, Trunc(2 * 765 * index + total, 2 * total), 0, 255>>
    ELSE IF 3 * index < 2 * total
    THEN <<Trunc(255 * (2 * total - 3 * index), total), 255,
           Trunc(255 * (3 * index - total), total), 255>>
    ELSE <<0, Trunc(255 * (3 * total - 3 * index), total), 255, 255>>

\* _frequency_based_color(index, total, magnitude); the magnitude is not
\* used.  index / (total / 3) is 3 * index / total.
frequency_based_color(index, total) ==
    IF 3 * index < total
    THEN <<255, Trunc(255 * 3 * index, total), 0, 255>>
    ELSE IF 3 * index < 2 * total
    THEN <<Trunc(255 * (2 * total - 3 * index), total), 255,
           Trunc(255 * (3 * index - total), total), 255>>
    ELSE <<0, Trunc(255 * (3 * total - 3 * index), total), 255, 255>>

\* _energy_based_color(magnitude)
energy_based_color(magnitude) ==
    IF magnitude < 33
    THEN <<0, Trunc(magnitude * 3 * 255, MagScale), 255, 255>>
    ELSE IF magnitude < 66
    THEN <<Trunc((magnitude - 33) * 3 * 255, MagScale), 255,
           Trunc((MagScale - (magnitude - 33) * 3) * 255, MagScale), 255>>
    ELSE <<255, Trunc((MagScale - (magnitude - 66) * 3) * 255, MagScale), 0,
           255>>

\* _fire_color(magnitude)
fire_color(magnitude) ==
    IF magnitude < 25
    THEN <<Trunc(139 * magnitude, 25), 0, 0, 255>>
    ELSE IF magnitude < 50
    THEN <<Trunc(139 * 25 + (255 - 139) * (magnitude - 25), 25),
           Trunc(69 * (magnitude - 25), 25), 0, 255>>
    ELSE IF magnitude < 75
    THEN <<255, Trunc(69 * 25 + (255 - 69) * (magnitude - 50), 25), 0, 255>>
    ELSE <<255, 255, Trunc(255 * (magnitude - 75), 25), 255>>

\* get_color(index, total, magnitude) under the settings s, with the
\* gradients that scale a ramp over index / total by
\* brightness = 0.5 + magnitude * 0.5 = (MagScale + magnitude) / (2 * MagScale).
\* A channel is given as a fraction n / d of 255 or as a fraction n / d.
get_color(s, index, total, magnitude) ==
    LET bn == MagScale + magnitude
        bd == 2 * MagScale
        \* int(c * brightness) for the channel value c = n / d
        Bright(n, d) == Trunc(n * bn, d * bd)
        \* t = index / total if total > 0 else 0, as the fraction tn / td
        tn == IF total > 0 THEN index ELSE 0
        td == IF total > 0 THEN total ELSE 1
        pitch_rainbow_color ==
            \* h = 6 * index / total; x = 1 - abs((h % 2) - 1) = xn / total
            LET h6 == (6 * index) \div total
                hm == (6 * index) % (2 * total)
                xn == total - (IF hm >= total THEN hm - total ELSE total - hm)
                rgb == IF h6 < 1 THEN <<total, xn, 0>>
                       ELSE IF h6 < 2 THEN <<xn, total, 0>>
                       ELSE IF h6 < 3 THEN <<0, total, xn>>
                       ELSE IF h6 < 4 THEN <<0, xn, total>>
                       ELSE IF h6 < 5 THEN <<xn, 0, total>>
                       ELSE <<total, 0, xn>>
            IN  <<Bright(rgb[1] * 255, total), Bright(rgb[2] * 255, total),
                  Bright(rgb[3] * 255, total), 255>>
        custom_color ==
            LET Mix(a, b) == Trunc(a * td + (b - a) * tn, td)
                c1 == s.custom_color_start
                c2 == s.custom_color_end
            IN  <<Bright(Mix(c1[1], c2[1]), 1), Bright(Mix(c1[2], c2[2]), 1),
                  Bright(Mix(c1[3], c2[3]), 1), 255>>
        monochrome_color ==
            <<Trunc(s.monochrome_color[1] * magnitude, MagScale),
              Trunc(s.monochrome_color[2] * magnitude, MagScale),
              Trunc(s.monochrome_color[3] * magnitude, MagScale), 255>>
        neon_color ==
            IF 100 * tn < 33 * td
            THEN <<Bright(255 * 100 * tn, 33 * td),
                   Bright(255 * (33 * td - 100 * tn), 33 * td),
                   Bright(255, 1), 255>>
            ELSE IF 100 * tn < 66 * td
            THEN <<Bright(255, 1),
                   Bright(255 * (100 * tn - 33 * td), 33 * td),
                   Bright(255 * (66 * td - 100 * tn), 33 * td), 255>>
            ELSE <<Bright(255 * (100 * td - 100 * tn), 34 * td),
                   Bright(255, 1),
                   Bright(255 * (100 * tn - 66 * td), 34 * td), 255>>
        sunset_color ==
            IF 4 * tn < td
            THEN <<Bright(128 * td + 127 * 4 * tn, td),
                   Bright(165 * 4 * tn, td),
                   Bright(128 * td - 128 * 4 * tn, td), 255>>
            ELSE IF 2 * tn < td
            THEN <<Bright(255, 1),
                   Bright(165 * td - 73 * (4 * tn - td), td),
                   Bright(203 * (4 * tn - td), td), 255>>
            ELSE IF 4 * tn < 3 * td
            THEN <<Bright(255, 1),
                   Bright(92 * td + 163 * (4 * tn - 2 * td), td),
                   Bright(203 * td - 203 * (4 * tn - 2 * td), td), 255>>
            ELSE <<Bright(255, 1), Bright(255, 1), Bright(0, 1), 255>>
        ocean_color ==
            IF 2 * tn < td
            THEN <<Bright(0, 1),
                   Bright(105 * td + 150 * 2 * tn, td),
                   Bright(148 * td + 107 * 2 * tn, td), 255>>
            ELSE <<Bright(64 * (2 * tn - td), td),
                   Bright(255 * td - 31 * (2 * tn - td), td),
                   Bright(255 * td - 47 * (2 * tn - td), td), 255>>
    IN  CASE s.color_gradient = "pitch_rainbow" -> pitch_rainbow_color
          [] s.color_gradient = "frequency-based" ->
                frequency_based_color(index, total)
          [] s.color_gradient = "energy-based" -> energy_based_color(magnitude)
          [] s.color_gradient = "custom" -> custom_color
          [] s.color_gradient = "monochrome" -> monochrome_color
          [] s.color_gradient = "neon" -> neon_color
          [] s.color_gradient = "sunset" -> sunset_color
          [] s.color_gradient = "ocean" -> ocean_color
          [] s.color_gradient = "fire" -> fire_color(magnitude)
          [] OTHER -> frequency_based_color(index, total)

\* A visualizer asks for the colour of one element.
get_color_call(index, total, magnitude) ==
    /\ gc_call' = [index |-> index, total |-> total, magnitude |-> magnitude]
    /\ gc_color' = get_color(gc_settings, index, total, magnitude)
    /\ UNCHANGED <<gc_settings, nonColorVars>>

\* ------------------------------------------------------------------------
\* The geometry of the bar-style visualizers (visualizers.py)
\* ------------------------------------------------------------------------

MaxVideoWidth == 12     \* canvas widths are 1..MaxVideoWidth
MaxVideoHeight == 6     \* canvas heights are 1..MaxVideoHeight

\* The rectangles [x0, y0, x1, y1] that render hands to draw.rectangle for
\* band i (counted from 0) of num_bands bands, of normalized magnitude m (in
\* units of 1 / NormScale), on a canvas of width by height pixels.
bar_rectangles(style, width, height, num_bands, i, m) ==
    LET Largest(a, b) == IF a > b THEN a ELSE b
        bar_width == IF style = "modern_gradient_bars"
                     THEN Largest(10, width \div num_bands)
                     ELSE width \div num_bands
        bar_spacing == IF style = "modern_gradient_bars" THEN 4 ELSE 2
        x == i * bar_width + bar_spacing
        x_end == x + bar_width - bar_spacing
        center_y == height \div 2
        \* BarsVisualizer.render and ModernGradientBarsVisualizer.render
        bar_height == Min(Trunc(m * height * 8, NormScale * 10), height)
        y1 == Largest(0, height - bar_height)
        y2 == height
        \* NCSBarsVisualizer.render
        max_bar_height == Min(Min(Trunc(m * height * 4, NormScale * 10),
                                  center_y), height - center_y)
        ncs_y1 == Largest(0, center_y - max_bar_height)
        ncs_y2 == Min(height, center_y + max_bar_height)
        \* DualSpectrumVisualizer.render
        dual_height == Trunc(m * height * 45, NormScale * 100)
        \* _draw_rounded_rectangle(draw, [x, y1, x_end, y2], corner_radius)
        corner_radius == Min(bar_width \div 2, 10)
        radius == Min(Min(corner_radius, (x_end - x) \div 2), (y2 - y1) \div 2)
        rounded ==
            IF x >= x_end \/ y1 >= y2 THEN << >>
            ELSE IF radius <= 0 THEN << <<x, y1, x_end, y2>> >>
            ELSE (IF y1 + radius < y2
                  THEN << <<x, y1 + radius, x_end, y2>> >> ELSE << >>)
                 \o (IF x + radius < x_end - radius /\ y1 < y1 + radius
                     THEN << <<x + radius, y1, x_end - radius, y1 + radius>> >>
                     ELSE << >>)
    IN  CASE style = "bars" ->
                IF y1 < y2 /\ x < x_end
                THEN << <<x, y1, x_end, y2>> >> ELSE << >>
          [] style = "ncs_bars" ->
                IF ncs_y1 < ncs_y2 /\ x < x_end
                THEN << <<x, ncs_y1, x_end, ncs_y2>> >> ELSE << >>
          [] style = "dual_spectrum" ->
                << <<x, center_y - dual_height, x_end, center_y>>,
                   <<x, center_y, x_end, center_y + dual_height>> >>
          [] style = "modern_gradient_bars" ->
                IF y1 < y2 /\ x < x_end THEN rounded ELSE << >>

\* render(bands, spectrum_data, frame_number) of the four bar styles
render_bars ==
    /\ ~br_drawn.rendered
    /\ br_drawn' =
         [rendered |-> TRUE,
          rects |-> [i \in 1..Len(br_bands) |->
                       bar_rectangles(br_style, br_width, br_height,
                                      Len(br_bands), i - 1,
                                      Normalize(br_bands)[i])]]
    /\ UNCHANGED <<br_style, br_width, br_height, br_bands, nonBarVars>>

\* ------------------------------------------------------------------------
\* The random draws of the compositor: beat shake, rain overlay, particle
\* visualizer, on two VideoGenerator copies
\* ------------------------------------------------------------------------
CanvasHeight == 20      \* video_height, in pixels

Copies == {"a", "b"}
NoRender == [rendered |-> FALSE, background |-> NoImage, offset_y |-> 0,
             overlay |-> <<>>, visualizer |-> <<>>]

\* int(max_shake * beat_strength) with max_shake = int((intensity / 100) * 20);
\* 0 when apply_beat_shake returns the frame as it is.
ShakeAmount(beat_strength, intensity) ==
    IF 100 * beat_strength < StrengthScale \/ intensity = 0 THEN 0
    ELSE (((intensity * 20) \div 100) * beat_strength) \div StrengthScale

\* apply_beat_shake with the two offsets random.randint returned.
apply_beat_shake(frame, beat_strength, intensity, offset_x, offset_y) ==
    IF 100 * beat_strength < StrengthScale \/ intensity = 0
    THEN [image |-> frame, offset_y |-> 0]
    ELSE [image |-> Paste(BlackImage(Len(frame.px)), frame, offset_x),
          offset_y |-> offset_y]

RainMaxParticles == 200
RainSpawnRate == 5

\* The spawn loop of RainOverlay.update; draws[k] is what the k-th pass drew
\* from random.uniform / random.randint, the x position and the speed
\* standing for the five drawn values.
RECURSIVE RainSpawn(_, _, _)
RainSpawn(particles, draws, k) ==
    IF k > RainSpawnRate THEN particles
    ELSE IF Len(particles) < RainMaxParticles
    THEN RainSpawn(Append(particles, [x |-> draws[k].x, y |-> 0 - 10,
                                      speed |-> draws[k].speed]),
                   draws, k + 1)
    ELSE RainSpawn(particles, draws, k + 1)

\* particle['y'] += particle['speed'], kept while y < self.height + 10
RECURSIVE RainMove(_)
RainMove(particles) ==
    IF particles = <<>> THEN <<>>
    ELSE LET moved == [particles[1] EXCEPT !.y = @ + particles[1].speed]
         IN  IF moved.y < CanvasHeight + 10
             THEN <<moved>> \o RainMove(Tail(particles))
             ELSE RainMove(Tail(particles))

ParticleMaxParticles == 200
SpawnThreshold == 300   \* magnitude > 0.3

\* (np.random.random() - 0.5) * magnitude * 20
Velocity(draw, magnitude) ==
    LET v == (draw - (NormScale \div 2)) * magnitude * 20
    IN  IF v >= 0 THEN v \div (NormScale * NormScale)
        ELSE 0 - ((0 - v) \div (NormScale * NormScale))

\* The spawn loop of ParticleVisualizer.render over the bands from the i-th
\* on; draws[i] holds the two values np.random.random() returned for band i.
\* Heights and vertical speeds are kept in half pixels, life in hundredths.
RECURSIVE ParticleSpawn(_, _, _, _)
ParticleSpawn(particles, normalized, draws, i) ==
    IF i > Len(normalized) THEN particles
    ELSE IF normalized[i] > SpawnThreshold
            /\ Len(particles) < ParticleMaxParticles
    THEN ParticleSpawn(
             Append(particles,
                    [x |-> ((i - 1) * CanvasWidth) \div Len(normalized),
                     y2 |-> 2 * (CanvasHeight \div 2),
                     vx |-> Velocity(draws[i][1], normalized[i]),
                     vy2 |-> 2 * Velocity(draws[i][2], normalized[i]),
                     life |-> 100]),
             normalized, draws, i + 1)
    ELSE ParticleSpawn(particles, normalized, draws, i + 1)

\* int(y) of a height kept in half pixels
TruncHalf(y2) == IF y2 >= 0 THEN y2 \div 2 ELSE 0 - ((0 - y2) \div 2)

\* The update loop of ParticleVisualizer.render: move, gravity, ageing; a
\* particle is kept while it lives and lies on the canvas.
RECURSIVE ParticleMove(_)
ParticleMove(particles) ==
    IF particles = <<>> THEN <<>>
    ELSE LET q == particles[1]
             moved == [q EXCEPT !.x = @ + q.vx, !.y2 = @ + q.vy2,
                                !.vy2 = @ + 1, !.life = @ - 2]
             kept == /\ moved.life > 0
                     /\ moved.x >= 0 /\ moved.x < CanvasWidth
                     /\ TruncHalf(moved.y2) >= 0
                     /\ TruncHalf(moved.y2) < CanvasHeight
         IN  IF kept THEN <<moved>> \o ParticleMove(Tail(particles))
             ELSE ParticleMove(Tail(particles))

\* generate_frame on copy c: the steps that draw random numbers, with the
\* values drawn.  Every copy loads the same background; the particle list
\* ParticleVisualizer.render leaves behind is also what it drew.
generate_frame_on(c, offset_x, offset_y, rain_draws, unit_draws) ==
    /\ ~dt_frame[c].rendered
    /\ LET background == [mode |-> "RGB",
                          px |-> [i \in 1..CanvasWidth |-> 100 + i],
                          alpha |-> <<>>]
           shaken == apply_beat_shake(background, dt_beat_strength,
                                      dt_shake_intensity, offset_x, offset_y)
           particles == IF dt_style = "particle"
                        THEN ParticleMove(ParticleSpawn(dt_particles[c],
                                                        Normalize(dt_bands),
                                                        unit_draws, 1))
                        ELSE dt_particles[c]
           rain == IF dt_overlay = "rain"
                   THEN RainMove(RainSpawn(dt_rain[c], rain_draws, 1))
                   ELSE dt_rain[c]
       IN  /\ dt_particles' = [dt_particles EXCEPT ![c] = particles]
           /\ dt_rain' = [dt_rain EXCEPT ![c] = rain]
           /\ dt_frame' = [dt_frame EXCEPT ![c] =
                             [rendered |-> TRUE,
                              background |-> shaken.image,
                              offset_y |-> shaken.offset_y,
                              overlay |-> rain,
                              visualizer |-> IF dt_style = "particle"
                                             THEN particles
                                             ELSE Normalize(dt_bands)]]
    /\ UNCHANGED <<dt_shake_intensity, dt_beat_strength, dt_overlay, dt_style,
                   dt_bands, nonDetVars>>

\* ------------------------------------------------------------------------
\* The particle systems over many frames (overlay_effects.py, visualizers.py)
\* ------------------------------------------------------------------------
\* Positions and velocities are in tenths of a pixel and life is in
\* hundredths.  A draw holds the random values of one call: x and y place a
\* particle at 0, 1/2 or 1 of the width and the height, speed is the speed
\* drawn, drift stands for the horizontal move of an update
\* (np.sin(...) * 2 + drift), decay is the decay drawn, and rx and ry are
\* np.random.random() in halves.

MaxCalls == 60          \* update or render is called at most MaxCalls times

\* self.max_particles, as each __init__ sets it
max_particles(style) ==
    CASE style = "rain" -> 200
      [] style = "snow" -> 150
      [] style = "sparkles" -> 100
      [] style = "bubbles" -> 80
      [] style = "particle" -> 200
      [] style = "waveform_particle" -> 150

\* A spawn loop that appends whatever the length of the list.
below_cap_always(style, particles) == TRUE

\* len(self.particles) < self.max_particles
below_cap(style, particles) == Len(particles) < max_particles(style)

\* The dictionary a spawn loop appends in iteration i (from 0), for the
\* normalized magnitude m of band i in the visualizers.
new_particle(style, width, height, num_bands, i, m, d) ==
    CASE style = "rain" ->
            [x |-> d.x * width * 5, y |-> 0 - 100, vx |-> 0, vy |-> d.speed,
             life |-> 100, decay |-> 0]
      [] style = "snow" ->
            [x |-> d.x * width * 5, y |-> 0 - 100, vx |-> d.drift,
             vy |-> d.speed, life |-> 100, decay |-> 0]
      [] style = "sparkles" ->
            [x |-> d.x * width * 5, y |-> d.y * height * 5, vx |-> 0,
             vy |-> 0, life |-> 100, decay |-> d.decay]
      [] style = "bubbles" ->
            [x |-> d.x * width * 5, y |-> (height + 10) * 10,
             vx |-> d.drift, vy |-> 0 - d.speed, life |-> 100, decay |-> 0]
      [] style = "particle" ->
            [x |-> Trunc(i * width, num_bands) * 10,
             y |-> (height \div 2) * 10,
             vx |-> Trunc((d.rx - 1) * m, 10),
             vy |-> Trunc((d.ry - 1) * m, 10), life |-> 100, decay |-> 2]
      [] style = "waveform_particle" ->
            [x |-> Trunc(i * width, num_bands) * 10,
             y |-> (height \div 2 - Trunc(m * height * 3, NormScale * 10)) * 10,
             vx |-> (d.rx - 1) * 25, vy |-> 0 - d.ry * 25, life |-> 100,
             decay |-> 3]

\* The spawn loop: spawn_rate iterations in the overlays, one iteration per
\* band in the visualizers, where a band spawns when its magnitude is above
\* 0.3 (particle) or 0.5 (waveform_particle).  An iteration appends when
\* the list is below the cap; the list only grows inside the loop, so the
\* k-th iteration that may spawn appends exactly when the list with all the
\* earlier ones appended is below the cap.
spawn(style, particles, width, height, normalized, d) ==
    LET overlay == style \in {"rain", "snow", "sparkles", "bubbles"}
        spawn_rate == CASE style = "rain" -> 5
                        [] style = "snow" -> 3
                        [] OTHER -> 2
        iterations == IF overlay THEN spawn_rate ELSE Len(normalized)
        magnitude(i) == IF overlay THEN 0 ELSE normalized[i + 1]
        loud(i) == \/ overlay
                   \/ style = "particle"
                      /\ 10 * magnitude(i) > 3 * NormScale
                   \/ style = "waveform_particle"
                      /\ 10 * magnitude(i) > 5 * NormScale
        spawning == SelectSeq([k \in 1..iterations |-> k - 1], loud)
        candidates ==
            [k \in 1..Len(spawning) |->
                new_particle(style, width, height, Len(normalized),
                             spawning[k], magnitude(spawning[k]), d)]
        appended ==
            Cardinality({k \in 1..Len(candidates) :
                            below_cap(style,
                                      particles \o SubSeq(candidates, 1, k - 1))})
    IN  particles \o SubSeq(candidates, 1, appended)

\* update(frame_number) of an overlay and render(bands, ...) of a visualizer,
\* as far as self.particles goes: spawn, move every particle, keep those
\* that pass the test of the style.
update_particles(style, particles, width, height, normalized, d) ==
    LET gravity == CASE style = "particle" -> 5
                     [] style = "waveform_particle" -> 3
                     [] OTHER -> 0
        Moved(p) == [p EXCEPT !.x = p.x + p.vx, !.y = p.y + p.vy,
                              !.vy = p.vy + gravity,
                              !.life = p.life - p.decay]
        Kept(p) ==
            CASE style = "rain" -> p.y < (height + 10) * 10
              [] style = "snow" -> /\ p.y < (height + 10) * 10
                                   /\ 0 <= p.x /\ p.x <= width * 10
              [] style = "sparkles" -> p.life > 0
              [] style = "bubbles" -> /\ p.y > 0 - 200
                                      /\ 0 <= p.x /\ p.x <= width * 10
              [] OTHER -> /\ p.life > 0
                          /\ 0 <= Trunc(p.x, 10) /\ Trunc(p.x, 10) < width
                          /\ 0 <= Trunc(p.y, 10) /\ Trunc(p.y, 10) < height
        spawned == spawn(style, particles, width, height, normalized, d)
    IN  IF style = "waveform_particle" /\ Len(normalized) < 2 THEN particles
        ELSE SelectSeq([k \in 1..Len(spawned) |-> Moved(spawned[k])], Kept)

\* generate_frame calls overlay_effect.update(frame_number) or
\* visualizer.render(bands, ...) once more; the random values of the call
\* are the draw of its parity.
update_call ==
    /\ ps_calls < MaxCalls
    /\ ps_particles' = update_particles(ps_style, ps_particles, ps_size[1],
                                        ps_size[2], ps_bands,
                                        ps_draws[(ps_calls % 2) + 1])
    /\ ps_calls' = ps_calls + 1
    /\ UNCHANGED <<ps_style, ps_size, ps_bands, ps_draws, nonParticleVars>>

\* ------------------------------------------------------------------------
\* The image modes along generate_frame (video_generator.py, effects.py)
\* ------------------------------------------------------------------------
\* Of the frame only the mode is kept; every image of the pipeline has the
\* size of the canvas.  Image.blend and Image.alpha_composite raise
\* ValueError when their two images differ in mode, and alpha_composite
\* wants both to be RGBA.

\* What the block at `step` does to a frame of mode `mode` when it runs:
\* the mode of the frame after it and the pairs of modes it hands to
\* Image.blend or Image.alpha_composite.  `alpha` is fade_in(frame_number,
\* total_frames) as the fraction alpha[1] / alpha[2]; `hit` says that the
\* beat strength or the audio intensity is over the threshold of the effect
\* (for the logo: that logo_text is set).
frame_mode_after(step, st, mode, alpha, hit) ==
    LET Same == [mode |-> mode, ops |-> << >>]
        BlendWith(other) == [mode |-> mode, ops |-> << <<mode, other>> >>]
    IN  CASE step = "background" -> [mode |-> "RGB", ops |-> << >>]
          [] step = "beat_shake" ->
                \* result = Image.new('RGB', ...); result.paste(frame, ...)
                IF hit THEN [mode |-> "RGB", ops |-> << >>] ELSE Same
          [] step = "background_opacity" ->
                \* frame.convert('RGBA'), then _apply_opacity
                [mode |-> "RGBA", ops |-> << >>]
          [] step = "background_animation" ->
                \* apply_fade_in: Image.blend(black, base_image, alpha)
                IF alpha[1] >= alpha[2] THEN Same
                ELSE [mode |-> "RGB", ops |-> << <<"RGB", mode>> >>]
          [] step = "visualizer" ->
                \* Image.alpha_composite(frame.convert('RGBA'), spectrum_img)
                \* and frame.convert('RGB')
                [mode |-> "RGB", ops |-> << <<"RGBA", "RGBA">> >>]
          [] step = "beat_effect" ->
                \* apply_beat_flash and apply_beat_strobe blend the frame
                \* with Image.new('RGB', frame.size, color)
                IF hit /\ st.beat_effect_type \in {"flash", "strobe"}
                THEN BlendWith("RGB") ELSE Same
          [] step = "strobe" -> IF hit THEN BlendWith("RGB") ELSE Same
          [] step = "overlay" ->
                \* frame.convert('RGBA'), Image.alpha_composite(frame, ...)
                [mode |-> "RGBA", ops |-> << <<"RGBA", "RGBA">> >>]
          [] step = "text_overlay" ->
                [mode |-> "RGBA", ops |-> << <<"RGBA", "RGBA">> >>]
          [] step = "logo" ->
                \* _add_text_logo composites; _add_logo pastes
                IF hit THEN [mode |-> "RGBA", ops |-> << <<"RGBA", "RGBA">> >>]
                ELSE [mode |-> "RGBA", ops |-> << >>]

\* One block of generate_frame on the frame of the call; a block that hands
\* two images of different modes to Image.blend raises out of
\* generate_frame.
GF_ModeStep(step, hit) ==
    /\ md_pc = step
    /\ LET alpha == IF md_call.total_frames <= 0 THEN <<1, 1>>
                    ELSE <<Min(md_call.frame_number, md_call.total_frames),
                           md_call.total_frames>>
           after == IF StepRuns(step, settings)
                    THEN frame_mode_after(step, settings, md_mode, alpha, hit)
                    ELSE [mode |-> IF step = "visualizer" THEN "RGB"
                                   ELSE md_mode,
                          ops |-> << >>]
           matching == \A k \in 1..Len(after.ops) :
                          after.ops[k][1] = after.ops[k][2]
       IN  /\ md_ops' = md_ops \o after.ops
           /\ md_mode' = IF matching THEN after.mode ELSE md_mode
           /\ md_pc' = IF matching THEN StepAfter(step) ELSE "raised"
    /\ UNCHANGED <<md_call, settings, nonModeVars>>

\* ------------------------------------------------------------------------
\* The main window and its worker threads (gui/main_window.py)
\* ------------------------------------------------------------------------
\* A VideoGenerator instance is the number of its construction; 0 is None.
\* The handlers run one at a time in the GUI thread; between two of them
\* every started QThread may take a step of its run().

MaxInstances == 3       \* VideoGenerator is constructed at most this often
MaxThreads == 3         \* at most this many QThreads exist at a time
MaxThreadFrames == 2    \* a thread calls generate_frame at most this often

\* update_video_generator()
update_video_generator(w) ==
    IF w.audio_processor
    THEN [w EXCEPT !.video_generator = w.instances + 1,
                   !.instances = w.instances + 1]
    ELSE w

\* QThread.start() of a new thread object around video_generator
started_thread(class, w, slot) ==
    [class |-> class, video_generator |-> w.video_generator, slot |-> slot,
     pc |-> "run", i |-> 0]

\* generate_preview_frames(): g is the window with its threads
generate_preview_frames(g) ==
    IF ~g.window.audio_processor \/ g.window.video_generator = 0 THEN g
    ELSE [g EXCEPT !.threads =
             Append(@, started_thread("PreviewFrameGenerator", g.window,
                                      "on_preview_frames_ready"))]

\* update_settings(): a new VideoGenerator, and with auto-preview the
\* single-shot timer is started again
update_settings(g) ==
    LET w == update_video_generator(g.window)
    IN  [g EXCEPT !.window = IF w.auto_preview_enabled
                             THEN [w EXCEPT !.preview_update_timer = TRUE]
                             ELSE w]

\* generate_preview() (button = "preview_btn") and generate_video()
\* (button = "generate_btn")
generate_clicked(g, button) ==
    IF ~g.window.audio_processor \/ ~g.window.output_path THEN g
    ELSE LET u == update_settings(g)
             slot == IF button = "preview_btn" THEN "on_preview_finished"
                     ELSE "on_generation_finished"
         IN  [window |-> [u.window EXCEPT ![button] = FALSE],
              threads |-> Append(u.threads,
                                 started_thread("VideoGenerationThread",
                                                u.window, slot))]

\* The window and threads g a handler leaves are within the bounds.
Bounded(g) ==
    /\ g.window.instances <= MaxInstances
    /\ Len(g.threads) <= MaxThreads

\* The window with its threads, as the handlers take it
Gui == [window |-> mw_window, threads |-> mw_threads]

\* browse_mp3() with a file chosen: load_audio()
MW_load_audio ==
    /\ ~mw_window.audio_processor
    /\ LET loaded == [Gui EXCEPT !.window.audio_processor = TRUE]
           g == [loaded EXCEPT !.window = update_video_generator(@)]
           after == IF g.window.auto_preview_enabled
                    THEN generate_preview_frames(g) ELSE g
       IN  /\ Bounded(after)
           /\ mw_window' = after.window
           /\ mw_threads' = after.threads
    /\ UNCHANGED nonGuiVars

\* A settings widget changes: update_settings()
MW_update_settings ==
    /\ Bounded(update_settings(Gui))
    /\ mw_window' = update_settings(Gui).window
    /\ mw_threads' = update_settings(Gui).threads
    /\ UNCHANGED nonGuiVars

\* The Auto Update box changes: toggle_auto_preview(state)
MW_toggle_auto_preview ==
    /\ LET g == [Gui EXCEPT !.window.auto_preview_enabled = ~@]
           after == IF g.window.auto_preview_enabled
                    THEN generate_preview_frames(g) ELSE g
       IN  /\ Bounded(after)
           /\ mw_window' = after.window
           /\ mw_threads' = after.threads
    /\ UNCHANGED nonGuiVars

\* preview_update_timer.timeout, 500 ms after the last start
MW_timer_timeout ==
    /\ mw_window.preview_update_timer
    /\ LET after == generate_preview_frames(
                       [Gui EXCEPT !.window.preview_update_timer = FALSE])
       IN  /\ Bounded(after)
           /\ mw_window' = after.window
           /\ mw_threads' = after.threads
    /\ UNCHANGED nonGuiVars

\* A click on an enabled Generate Preview or Generate Video button
MW_generate(button) ==
    /\ mw_window[button]
    /\ Bounded(generate_clicked(Gui, button))
    /\ mw_window' = generate_clicked(Gui, button).window
    /\ mw_threads' = generate_clicked(Gui, button).threads
    /\ UNCHANGED nonGuiVars

\* Thread k enters generate_frame(i) of its VideoGenerator.
Thread_enter_frame(k) ==
    /\ k \in 1..Len(mw_threads)
    /\ mw_threads[k].pc = "run"
    /\ mw_threads[k].i < MaxThreadFrames
    /\ mw_threads' = [mw_threads EXCEPT ![k].pc = "generate_frame"]
    /\ UNCHANGED <<mw_window, nonGuiVars>>

\* generate_frame(i) of thread k returns.
Thread_leave_frame(k) ==
    /\ k \in 1..Len(mw_threads)
    /\ mw_threads[k].pc = "generate_frame"
    /\ mw_threads' = [mw_threads EXCEPT ![k].pc = "run", ![k].i = @ + 1]
    /\ UNCHANGED <<mw_window, nonGuiVars>>

\* run() of thread k is over: frames_ready or finished is emitted.
Thread_emit(k) ==
    /\ k \in 1..Len(mw_threads)
    /\ mw_threads[k].pc = "run"
    /\ mw_threads[k].i = MaxThreadFrames
    /\ mw_threads' = [mw_threads EXCEPT ![k].pc = "emitted"]
    /\ UNCHANGED <<mw_window, nonGuiVars>>

\* The GUI thread runs the slot of thread k: on_preview_frames_ready,
\* on_preview_finished or on_generation_finished.
MW_slot(k) ==
    /\ k \in 1..Len(mw_threads)
    /\ mw_threads[k].pc = "emitted"
    /\ LET slot == mw_threads[k].slot
           rest == SubSeq(mw_threads, 1, k - 1)
                   \o SubSeq(mw_threads, k + 1, Len(mw_threads))
       IN  /\ mw_window' =
                 CASE slot = "on_preview_finished" ->
                         [mw_window EXCEPT !.preview_btn = TRUE]
                   [] slot = "on_generation_finished" ->
                         [mw_window EXCEPT !.generate_btn = TRUE]
                   [] OTHER -> mw_window
           /\ mw_threads' = rest
    /\ UNCHANGED nonGuiVars

\* ------------------------------------------------------------------------
\* Specifications
\* ------------------------------------------------------------------------

\* The objects a specification does not exercise, as constructed from the
\* default settings and never called.
Idle(used) ==
    /\ IF "cache" \in used THEN TRUE
       ELSE max_size = 0 /\ CacheInit
    /\ IF "slide" \in used THEN TRUE
       ELSE /\ background_paths = 0
            /\ slideshow_enabled = FALSE
            /\ slideshow_interval = 10000
            /\ transition_duration = 1000
            /\ bm_frame_rate = 30
            /\ bm_frame_number = 0
            /\ bm_result = NoResult
    /\ IF "settings" \in used THEN TRUE
       ELSE settings = DefaultSettings
    /\ FrameInit
    /\ VideoCommonInit
    /\ IF "video" \in used THEN TRUE
       ELSE /\ caller = "direct"
            /\ vg_pc = "idle"
            /\ audio_frames = 0
            /\ preview_frames = 0
            /\ start_frame = 0
            /\ end_frame = NoEnd
            /\ end_arg = NoEnd
    /\ IF "audio" \in used THEN TRUE
       ELSE /\ ap_duration = 1
            /\ track_tempo = 0
            /\ track_beats = {}
            /\ AudioInit
    /\ IF "transition" \in used THEN TRUE
       ELSE /\ tr_image1 = BlackImage(CanvasWidth)
            /\ tr_image2 = BlackImage(CanvasWidth)
            /\ tr_progress = 0
            /\ tr_applied = "none"
            /\ tr_result = NoImage
    /\ IF "load" \in used THEN TRUE
       ELSE /\ bg_file = "empty"
            /\ slide_files = <<>>
            /\ background_fit = "stretch"
            /\ bm_transition_type = "fade"
            /\ cached_backgrounds = <<>>
            /\ logo_file = "empty"
            /\ logo_text = FALSE
            /\ cached_logo = FALSE
            /\ ld_pc = "load_background"
            /\ ld_background = NoFrame
            /\ ld_frame = NoFrame
    /\ IF "visualizer" \in used THEN TRUE
       ELSE /\ vz_style = "bars"
            /\ vz_bands = <<0>>
            /\ vz_normalized = <<>>
    /\ IF "copies" \in used THEN TRUE
       ELSE /\ dt_shake_intensity = 0
            /\ dt_beat_strength = 0
            /\ dt_overlay = "none"
            /\ dt_style = "bars"
            /\ dt_bands = <<3, 3>>
            /\ dt_rain = [c \in Copies |-> <<>>]
            /\ dt_particles = [c \in Copies |-> <<>>]
            /\ dt_frame = [c \in Copies |-> NoRender]
    /\ IF "color" \in used THEN TRUE
       ELSE /\ gc_settings = GradientDefaults
            /\ gc_call = NoColor
            /\ gc_color = NoColor
    /\ IF "bars" \in used THEN TRUE
       ELSE /\ br_style = "bars"
            /\ br_width = 1
            /\ br_height = 1
            /\ br_bands = <<0>>
            /\ br_drawn = [rendered |-> FALSE, rects |-> << >>]
    /\ IF "particles" \in used THEN TRUE
       ELSE /\ ps_style = "rain"
            /\ ps_size = <<1, 1>>
            /\ ps_bands = << >>
            /\ ps_draws = << >>
            /\ ps_particles = << >>
            /\ ps_calls = 0
    /\ IF "modes" \in used THEN TRUE
       ELSE /\ md_call = [frame_number |-> 0, total_frames |-> 0]
            /\ md_pc = "background"
            /\ md_mode = "none"
            /\ md_ops = << >>
    /\ IF "gui" \in used THEN TRUE
       ELSE /\ mw_window = [audio_processor |-> FALSE, output_path |-> FALSE,
                            video_generator |-> 0, instances |-> 0,
                            auto_preview_enabled |-> TRUE,
                            preview_update_timer |-> FALSE,
                            preview_btn |-> TRUE, generate_btn |-> TRUE]
            /\ mw_threads = << >>

InitSlide == Idle({"slide"}) /\ SlideInit
NextSlideshow == get_background_for_frame
SpecSlide == InitSlide /\ [][NextSlideshow]_vars

\* CacheManager driven by a caller that never writes into its buffers.
InitCache == Idle({"cache"}) /\ CacheInit
NextCache ==
    \/ \E f \in SpectrumKeys : cache_spectrum(f, 0)
    \/ \E f \in SpectrumKeys : get_spectrum(f)
    \/ \E k \in BandsKeys : cache_bands(k[1], k[2], 0)
    \/ \E k \in BandsKeys : get_bands(k[1], k[2])
    \/ \E p \in ImageKeys : cache_image(p, 0)
    \/ \E p \in ImageKeys : get_image(p)
    \/ clear
SpecCache == InitCache /\ [][NextCache]_vars

\* CacheManager driven by a caller that also writes into the buffers it
\* passed in and the buffers it got back.
InitCacheCopy == Idle({"cache"}) /\ CacheInit
NextCacheCopy ==
    \/ \E f \in {0, 1}, v \in Values : cache_spectrum(f, v)
    \/ \E f \in {0, 1} : get_spectrum(f)
    \/ \E k \in {<<0, NumBands>>}, v \in Values : cache_bands(k[1], k[2], v)
    \/ \E k \in {<<0, NumBands>>} : get_bands(k[1], k[2])
    \/ \E p \in {"a.png"}, v \in Values : cache_image(p, v)
    \/ \E p \in {"a.png"} : get_image(p)
    \/ clear
    \/ \E w \in Values : MutateArg(w)
    \/ \E w \in Values : MutateRet(w)
SpecCacheCopy == InitCacheCopy /\ [][NextCacheCopy]_vars

\* One generate_frame call under every settings snapshot.
InitFrame == Idle({"settings"}) /\ settings \in FrameSettings
NextFrame == \E i \in 1..(Len(StepOrder) - 1) : FrameStep(StepOrder[i])
SpecFrame == InitFrame /\ [][NextFrame]_vars

\* Direct calls generate_frames(output_dir, start_frame, end_frame).
InitFrames ==
    /\ Idle({"settings", "video"})
    /\ settings \in VideoSettings
    /\ caller = "direct"
    /\ vg_pc = "generate_frames"
    /\ audio_frames \in TotalChoices
    /\ preview_frames = 0
    /\ start_frame \in 0..MaxStart
    /\ end_frame \in {NoEnd} \cup (0..3) \cup (batch_size..(MaxTotal + 1))
    /\ end_arg = end_frame
NextFrames == generate_frames_steps
SpecFrames == InitFrames /\ [][NextFrames]_vars

\* One run of generate_video(output_path, preview_seconds = ...).
InitVideo ==
    /\ Idle({"settings", "video"})
    /\ settings \in VideoSettings
    /\ caller = "generate_video"
    /\ vg_pc = "generate_video"
    /\ audio_frames \in TotalChoices
    /\ preview_frames \in {0, 2}
    /\ start_frame = 0
    /\ end_frame = NoEnd
    /\ end_arg = NoEnd
NextVideo ==
    \/ \E mk_ok \in BOOLEAN : GV_Start(mk_ok)
    \/ generate_frames_steps
    \/ \E ok \in BOOLEAN : AV_RunEncoder(ok)
    \/ \E rm_ok \in BOOLEAN : GV_Cleanup(rm_ok)
    \/ \E rm_ok \in BOOLEAN : GV_Except(rm_ok)
    \/ RequestCancel
SpecVideo == InitVideo /\ [][NextVideo]_vars

\* One AudioProcessor answering spectrum queries about its track.
InitAudio ==
    /\ Idle({"audio"})
    /\ track_tempo = 0
    /\ track_beats = {}
    /\ AudioInit
NextAudio ==
    \/ \E r \in SpectrumRates, n \in SpectrumFfts : compute_spectrum(r, n)
    \/ \E f \in SpectrumQueryFrames, r \in SpectrumRates :
          get_frame_spectrum(f, r)
    \/ \E f \in SpectrumQueryFrames, r \in SpectrumRates :
          get_frame_bands(f, NumBands, r)
SpecAudio == InitAudio /\ [][NextAudio]_vars

\* One AudioProcessor answering beat queries about its track.
InitBeats ==
    /\ Idle({"audio"})
    /\ ap_duration = MaxDuration
    /\ AudioInit
NextBeats ==
    \/ \E ok \in BOOLEAN : detect_beats(ok)
    \/ \E ok \in BOOLEAN : get_tempo(ok)
    \/ \E ok \in BOOLEAN : get_beat_times(ok)
    \/ \E f \in BeatQueryFrames, r \in BeatRates, ok \in BOOLEAN :
          is_beat_frame(f, r, DefaultTolerance, ok)
    \/ \E f \in BeatQueryFrames, r \in BeatRates, ok \in BOOLEAN :
          get_beat_strength(f, r, ok)
SpecBeats == InitBeats /\ [][NextBeats]_vars

\* One transition between two backgrounds.
InitTrans ==
    /\ Idle({"transition"})
    /\ tr_image1 \in BackgroundImages
    /\ tr_image2 \in BackgroundImages
    /\ tr_progress \in 0..ProgressDen
    /\ tr_applied = "none"
    /\ tr_result = NoImage
NextTrans ==
    \E t \in {"fade", "crossfade", "slide", "zoom", "instant", "other"} :
       apply_transition(t)
SpecTrans == InitTrans /\ [][NextTrans]_vars

\* generate_frame calls of a VideoGenerator built over backgrounds and a
\* logo that may be missing or unreadable, with a slideshow of one second
\* per slide and per transition.  background_path is read only when there is
\* no slideshow, so it is varied only then.
InitLoad ==
    /\ Idle({"slide", "load"})
    /\ slide_files \in UNION {[1..n -> FileStates] : n \in 0..MaxSlides}
    /\ bg_file \in IF Len(slide_files) > 0 THEN {"empty"}
                   ELSE {"empty"} \cup FileStates
    /\ background_fit \in {"stretch", "tile", "center"}
    /\ bm_transition_type \in {"fade", "slide"}
    /\ cached_backgrounds = [i \in 1..Len(slide_files) |-> NoImage]
    /\ logo_file \in {"empty"} \cup FileStates
    /\ logo_text \in BOOLEAN
    /\ cached_logo = FALSE
    /\ ld_pc = "load_background"
    /\ ld_background = NoFrame
    /\ ld_frame = NoFrame
    /\ background_paths = Len(slide_files)
    /\ slideshow_enabled = TRUE
    /\ slideshow_interval = 1000
    /\ transition_duration = 1000
    /\ bm_frame_rate = 30
    /\ bm_frame_number = 0
    /\ bm_result = NoResult
NextLoad ==
    \/ \E f \in {0, 45}, v \in {"absent", "frame", "none", "raise"} :
          load_background(f, v)
    \/ GF_AddLogo
    \/ GF_NextCall
SpecLoad == InitLoad /\ [][NextLoad]_vars

\* One render call of a visualizer of any style VisualizerFactory.create
\* knows.
InitViz ==
    /\ Idle({"visualizer"})
    /\ vz_style \in {"bars", "filled_waveform", "circle", "line_waveform",
                     "particle", "ncs_bars", "dual_spectrum",
                     "waveform_particle", "modern_gradient_bars",
                     "pulse_ring", "frequency_dots"}
    /\ vz_bands \in UNION {[1..n -> 0..MaxMagnitude] : n \in 1..MaxBands}
    /\ vz_normalized = <<>>
NextViz == render_normalize
SpecViz == InitViz /\ [][NextViz]_vars

\* Two copies built from one settings snapshot, with the same particle
\* state, rendering the same frame.  The rain overlay is combined with no
\* other random step to keep the draws of one call few.
InitDet ==
    /\ Idle({"copies"})
    /\ dt_overlay \in {"none", "rain"}
    /\ dt_shake_intensity \in IF dt_overlay = "rain" THEN {0} ELSE {0, 5}
    /\ dt_beat_strength \in {0, StrengthScale}
    /\ dt_style \in IF dt_overlay = "rain" THEN {"bars"}
                    ELSE {"bars", "particle"}
    /\ dt_bands \in {<<3, 3>>, <<3, 0>>}
    /\ \E r \in {<<>>, <<[x |-> 0, y |-> 5, speed |-> 15]>>} :
          dt_rain = [c \in Copies |-> r]
    /\ dt_particles = [c \in Copies |-> <<>>]
    /\ dt_frame = [c \in Copies |-> NoRender]

\* Each draw of random.randint covers its whole range; the other draws take
\* one of two values.
NextDet ==
    \E c \in Copies :
       LET shake_amount == ShakeAmount(dt_beat_strength, dt_shake_intensity)
           rain_draws ==
               IF dt_overlay = "rain"
               THEN [1..RainSpawnRate ->
                        {[x |-> 0, speed |-> 15],
                         [x |-> CanvasWidth - 1, speed |-> 25]}]
               ELSE {[k \in 1..RainSpawnRate |-> [x |-> 0, speed |-> 15]]}
           unit_draws ==
               IF dt_style = "particle"
               THEN [1..Len(dt_bands) -> {0, 500} \X {0, 500}]
               ELSE {[i \in 1..Len(dt_bands) |-> <<0, 0>>]}
       IN  \E ox, oy \in (0 - shake_amount)..shake_amount :
              \E rd \in rain_draws, ud \in unit_draws :
                 generate_frame_on(c, ox, oy, rd, ud)
SpecDet == InitDet /\ [][NextDet]_vars

\* A visualizer under any gradient name the settings can hold, with the
\* default colours or with other ones.
InitColor ==
    /\ Idle({"color"})
    /\ \E g \in {"pitch_rainbow", "frequency-based", "energy-based", "custom",
                  "monochrome", "neon", "sunset", "ocean", "fire", "other"},
          c \in {GradientDefaults,
                 [GradientDefaults EXCEPT !.custom_color_start = <<0, 0, 0>>,
                                          !.custom_color_end = <<255, 255, 255>>,
                                          !.monochrome_color = <<255, 128, 0>>]} :
          /\ c # GradientDefaults => g \in {"custom", "monochrome"}
          /\ gc_settings = [c EXCEPT !.color_gradient = g]
    /\ gc_call = NoColor
    /\ gc_color = NoColor

\* get_color as the visualizers call it: the index and the total are those
\* of the bands of a frame (i of num_bands or num_points, and
\* num_points // 2 of num_points), of the columns of the dot grid (col of
\* min(num_bands, 40)) and of the pulse ring (0 of 10); the magnitude is a
\* normalized band.
NextColor ==
    /\ gc_call = NoColor
    /\ \E p \in {<<i, NumBands>> : i \in 0..(NumBands - 1)}
                \cup {<<col, 40>> : col \in 0..39} \cup {<<0, 10>>},
          magnitude \in 0..MagScale :
            get_color_call(p[1], p[2], magnitude)

SpecColor == InitColor /\ [][NextColor]_vars

\* A bar-style visualizer on a canvas of any size, given any bands.
InitBars ==
    /\ Idle({"bars"})
    /\ br_style \in {"bars", "ncs_bars", "dual_spectrum",
                     "modern_gradient_bars"}
    /\ br_width \in 1..MaxVideoWidth
    /\ br_height \in 1..MaxVideoHeight
    /\ br_bands \in UNION {[1..n -> 0..MaxMagnitude] : n \in 1..MaxBands}
    /\ br_drawn = [rendered |-> FALSE, rects |-> << >>]

SpecBars == InitBars /\ [][render_bars]_vars

\* A stateful overlay or visualizer as __init__ leaves it, on a small and on
\* a large canvas.  The visualizers get the same 64 bands in every call: all
\* at the maximum, all silent, or loud and soft in turn; and one run gets a
\* single band.
InitParticles ==
    /\ Idle({"particles"})
    /\ ps_style \in {"rain", "snow", "sparkles", "bubbles", "particle",
                     "waveform_particle"}
    /\ ps_size \in {<<8, 6>>, <<1280, 720>>}
    /\ IF ps_style \in {"particle", "waveform_particle"}
       THEN ps_bands \in {[i \in 1..NumBands |-> NormScale],
                          [i \in 1..NumBands |-> 0],
                          [i \in 1..NumBands |->
                              IF i % 2 = 0 THEN NormScale
                              ELSE (4 * NormScale) \div 10],
                          <<NormScale>>}
       ELSE ps_bands = << >>
    /\ LET D(x, y, speed, drift, decay, rx, ry) ==
               [x |-> x, y |-> y, speed |-> speed, drift |-> drift,
                decay |-> decay, rx |-> rx, ry |-> ry]
           draws ==
               CASE ps_style = "rain" ->
                       {D(0, 0, 150, 0, 0, 0, 0), D(1, 0, 250, 0, 0, 0, 0),
                        D(2, 0, 200, 0, 0, 0, 0)}
                 [] ps_style = "snow" ->
                       {D(1, 0, 20, 0, 0, 0, 0), D(0, 0, 50, 30, 0, 0, 0),
                        D(2, 0, 35, 0 - 30, 0, 0, 0)}
                 [] ps_style = "sparkles" ->
                       {D(0, 0, 0, 0, 2, 0, 0), D(1, 1, 0, 0, 5, 0, 0),
                        D(2, 2, 0, 0, 3, 0, 0)}
                 [] ps_style = "bubbles" ->
                       {D(1, 0, 10, 0, 0, 0, 0), D(0, 0, 30, 15, 0, 0, 0),
                        D(2, 0, 20, 0 - 15, 0, 0, 0)}
                 [] OTHER ->
                       {D(0, 0, 0, 0, 0, 1, 1), D(0, 0, 0, 0, 0, 0, 2),
                        D(0, 0, 0, 0, 0, 2, 0)}
       IN  ps_draws \in {<<a, b>> : a \in draws, b \in draws}
    /\ ps_particles = << >>
    /\ ps_calls = 0

SpecParticles == InitParticles /\ [][update_call]_vars

\* generate_frame(frame_number) under every settings snapshot, for a frame
\* inside and a frame at the end of the fade, and for an empty track.
InitModes ==
    /\ Idle({"settings", "modes"})
    /\ settings \in FrameSettings
    /\ md_call \in {[frame_number |-> 0, total_frames |-> 2],
                    [frame_number |-> 2, total_frames |-> 2],
                    [frame_number |-> 0, total_frames |-> 0]}
    /\ md_pc = "background"
    /\ md_mode = "none"
    /\ md_ops = << >>

NextModes ==
    \E i \in 1..(Len(StepOrder) - 1), hit \in BOOLEAN :
        GF_ModeStep(StepOrder[i], hit)

SpecModes == InitModes /\ [][NextModes]_vars

\* MainWindow.__init__ with no MP3 file in the saved settings; the output
\* path is set or empty.
InitGui ==
    /\ Idle({"gui"})
    /\ mw_window \in {[audio_processor |-> FALSE, output_path |-> o,
                       video_generator |-> 0, instances |-> 0,
                       auto_preview_enabled |-> TRUE,
                       preview_update_timer |-> FALSE,
                       preview_btn |-> TRUE, generate_btn |-> TRUE] :
                      o \in BOOLEAN}
    /\ mw_threads = << >>

NextGui ==
    \/ MW_load_audio
    \/ MW_update_settings
    \/ MW_toggle_auto_preview
    \/ MW_timer_timeout
    \/ \E button \in {"preview_btn", "generate_btn"} : MW_generate(button)
    \/ \E k \in 1..MaxThreads :
          \/ Thread_enter_frame(k)
          \/ Thread_leave_frame(k)
          \/ Thread_emit(k)
          \/ MW_slot(k)

SpecGui == InitGui /\ [][NextGui]_vars

\* ------------------------------------------------------------------------
\* Properties of CacheManager
\* ------------------------------------------------------------------------
\* The victim the documentation of _evict_lru describes, stated without the
\* scan: position i holds a minimal count and every earlier position holds a
\* strictly larger one; after the call the store holds the old keys without
\* the victim, plus the inserted key.
EvictsFirstMinimal(old, counts, new, k) ==
    \E i \in 1..Len(old) :
        /\ \A j \in 1..Len(old) :
              CountOf(counts, old[i].key) <= CountOf(counts, old[j].key)
        /\ \A j \in 1..(i - 1) :
              CountOf(counts, old[j].key) > CountOf(counts, old[i].key)
        /\ DictKeys(new) = (DictKeys(old) \ {old[i].key}) \cup {k}

FullInsertEvicts ==
    /\ \A f \in SpectrumKeys :
          (Len(spectrum_cache) = max_size /\ \E v \in Values : cache_spectrum(f, v))
          => EvictsFirstMinimal(spectrum_cache, access_count.spectrum,
                                spectrum_cache', f)
    /\ \A k \in BandsKeys :
          (Len(bands_cache) = max_size /\ \E v \in Values : cache_bands(k[1], k[2], v))
          => EvictsFirstMinimal(bands_cache, access_count.bands,
                                bands_cache', k)
    /\ \A p \in ImageKeys :
          (Len(image_cache) = max_size /\ \E v \in Values : cache_image(p, v))
          => EvictsFirstMinimal(image_cache, access_count.image,
                                image_cache', p)

\* C4: a cache_spectrum / cache_bands / cache_image call made while the
\* store of that kind holds max_size entries evicts exactly one entry of that
\* kind before the insert, the first one in insertion order among those of
\* minimal access count.
C4_FullInsertEvictsFirstMinimal == [][FullInsertEvicts]_vars

\* The same statement for a CacheManager built with max_size >= 1.
C4_FullInsertEvictsFirstMinimalPositive ==
    [][max_size >= 1 => FullInsertEvicts]_vars

\* The example of C4: capacity 2, insert A, get A, insert B, insert C
\* leaves exactly {A, C} (A = 0, B = 1, C = 2).
C4_ExampleReached ==
    /\ max_size = 2
    /\ Len(spectrum_cache) = 2
    /\ spectrum_cache[1].key = 0
    /\ spectrum_cache[2].key = 2
    /\ CountOf(access_count.spectrum, 0) = 1

\* C5: each of the spectrum, bands and image stores holds at most max_size
\* entries.
C5_StoresBounded ==
    /\ Len(spectrum_cache) <= max_size
    /\ Len(bands_cache) <= max_size
    /\ Len(image_cache) <= max_size

\* What the next get_* for a key would hand back.
NextGet(cache, k) == Returned(cache, k).val
StoredUnchanged(old, new) ==
    /\ DictKeys(new) = DictKeys(old)
    /\ \A k \in DictKeys(old) : NextGet(new, k) = NextGet(old, k)

\* C6: a caller writing into a buffer it passed to cache_* or into a buffer
\* get_* returned changes nothing of what the next get_* returns, for any
\* key of any store.
C6_CopyIsolation ==
    [][((\E w \in Values : MutateArg(w)) \/ (\E w \in Values : MutateRet(w)))
        => /\ StoredUnchanged(spectrum_cache, spectrum_cache')
           /\ StoredUnchanged(bands_cache, bands_cache')
           /\ StoredUnchanged(image_cache, image_cache')]_vars

\* The caller has cached a buffer, read it back and overwritten both its own
\* buffers: the only cached entry differs from both.
C6_BothBuffersOverwritten ==
    /\ Len(spectrum_cache) = 1
    /\ Len(bands_cache) = 0
    /\ Len(image_cache) = 0
    /\ callerArg # NoBuffer
    /\ callerRet # NoBuffer
    /\ spectrum_cache[1].buf.val # callerArg
    /\ spectrum_cache[1].buf.val # callerRet

\* C23: the access count of a key that stays in its store never decreases,
\* whatever operation is made, caching the same key again included.
C23_CountsNeverDecrease ==
    [][/\ \A k \in DictKeys(spectrum_cache) \cap DictKeys(spectrum_cache') :
             CountOf(access_count'.spectrum, k)
                >= CountOf(access_count.spectrum, k)
       /\ \A k \in DictKeys(bands_cache) \cap DictKeys(bands_cache') :
             CountOf(access_count'.bands, k) >= CountOf(access_count.bands, k)
       /\ \A k \in DictKeys(image_cache) \cap DictKeys(image_cache') :
             CountOf(access_count'.image, k)
                >= CountOf(access_count.image, k)]_vars

\* The keys that have an access count are the keys held, store by store.
CountsInStep ==
    /\ DOMAIN access_count.spectrum = DictKeys(spectrum_cache)
    /\ DOMAIN access_count.bands = DictKeys(bands_cache)
    /\ DOMAIN access_count.image = DictKeys(image_cache)

\* Some get_* call is made for a key its store does not hold.
GetMiss ==
    \/ \E f \in SpectrumKeys :
          f \notin DictKeys(spectrum_cache) /\ get_spectrum(f)
    \/ \E k \in BandsKeys :
          k \notin DictKeys(bands_cache) /\ get_bands(k[1], k[2])
    \/ \E p \in ImageKeys :
          p \notin DictKeys(image_cache) /\ get_image(p)

\* C27: after every operation the keys of _access_count are the tagged keys
\* of the entries held in the three stores, and a get_* miss creates no
\* counter and changes nothing that is stored.
C27_CountsFollowStores ==
    [][/\ CountsInStep'
       /\ GetMiss => /\ access_count' = access_count
                     /\ StoredUnchanged(spectrum_cache, spectrum_cache')
                     /\ StoredUnchanged(bands_cache, bands_cache')
                     /\ StoredUnchanged(image_cache, image_cache')]_vars

\* A full spectrum store with a key that was read, after a get_spectrum
\* miss: the caller holds None although a read had succeeded.
C27_MissOnFullStore ==
    /\ max_size = 2
    /\ Len(spectrum_cache) = 2
    /\ \E k \in DictKeys(spectrum_cache) : CountOf(access_count.spectrum, k) >= 1
    /\ callerRet = NoBuffer

\* C28: caching a key its store already holds leaves the set of keys of
\* that store as it was, also when the store holds max_size entries.
C28_RecacheKeepsKeys ==
    [][/\ \A f \in DictKeys(spectrum_cache) :
             (\E v \in Values : cache_spectrum(f, v))
             => DictKeys(spectrum_cache') = DictKeys(spectrum_cache)
       /\ \A k \in DictKeys(bands_cache) :
             (\E v \in Values : cache_bands(k[1], k[2], v))
             => DictKeys(bands_cache') = DictKeys(bands_cache)
       /\ \A p \in DictKeys(image_cache) :
             (\E v \in Values : cache_image(p, v))
             => DictKeys(image_cache') = DictKeys(image_cache)]_vars

\* ------------------------------------------------------------------------
\* Properties of BackgroundManager
\* ------------------------------------------------------------------------
\* The schedule as the specification words it, with t = f / frameRate and
\* k = floor(t / (interval + transitionDuration)) given by its defining
\* inequalities k * total <= t < (k + 1) * total, all times multiplied by
\* 1000 * frameRate.
ScheduleOf(n, interval_ms, duration_ms, rate, f, result) ==
    LET t == 1000 * f
        interval == interval_ms * rate
        duration == duration_ms * rate
        total == interval + duration
    IN  \E k \in 0..f :
           /\ k * total <= t
           /\ t < (k + 1) * total
           /\ LET cyclePosition == t - k * total
              IN  IF cyclePosition < interval
                  THEN /\ result.kind = "slide"
                       /\ result.index = k % n
                  ELSE /\ result.kind = "transition"
                       /\ result.index = k % n
                       /\ result.next = (k + 1) % n
                       /\ result.den > 0
                       /\ result.num * duration
                             = (cyclePosition - interval) * result.den

ExampleSettings ==
    /\ background_paths = 3
    /\ slideshow_enabled
    /\ slideshow_interval = 10000
    /\ transition_duration = 1000
    /\ bm_frame_rate = 30

\* C7: in slideshow mode with N paths the manager shows slide
\* floor(t / (interval + transitionDuration)) mod N while
\* cyclePosition < interval and otherwise blends it into the next slide with
\* progress (cyclePosition - interval) / transitionDuration; with interval
\* 10 s, transition 1 s, N = 3 and 30 fps, t = 10.5 s (frame 315) is the
\* transition from slide 0 to slide 1 at progress 1/2 and t = 9.9 s
\* (frame 297) shows slide 0.
C7_SlideshowSchedule ==
    (bm_result # NoResult /\ slideshow_enabled /\ background_paths >= 1)
    => /\ ScheduleOf(background_paths, slideshow_interval,
                     transition_duration, bm_frame_rate, bm_frame_number,
                     bm_result)
       /\ (ExampleSettings /\ bm_frame_number = 315)
            => /\ bm_result.kind = "transition"
               /\ bm_result.index = 0
               /\ bm_result.next = 1
               /\ 2 * bm_result.num = bm_result.den
       /\ (ExampleSettings /\ bm_frame_number = 297)
            => /\ bm_result.kind = "slide"
               /\ bm_result.index = 0

\* The manager has answered for frame 315 of the example and is in a
\* transition.
C7_ExampleTransitionReached ==
    /\ ExampleSettings
    /\ bm_frame_number = 315
    /\ bm_result.kind = "transition"

\* ------------------------------------------------------------------------
\* Properties of VideoGenerator.generate_frame
\* ------------------------------------------------------------------------
\* The position of each operation in the composition order of the
\* specification; the beat-synchronized effect and the plain strobe share
\* one position.
Rank(layer) ==
    CASE layer = "_load_background" -> 1
      [] layer = "apply_beat_shake" -> 2
      [] layer = "_apply_opacity" -> 3
      [] layer = "apply_background_animation" -> 4
      [] layer = "visualizer.render" -> 5
      [] layer \in {"apply_beat_pulse", "apply_beat_flash",
                    "apply_beat_strobe", "apply_beat_zoom"} -> 6
      [] layer = "apply_strobe" -> 6
      [] layer = "overlay_effect.render" -> 7
      [] layer = "_add_text_overlay" -> 8
      [] layer = "_add_logo" -> 9

Applied == {applied[i] : i \in 1..Len(applied)}

\* The layers a snapshot enables, read off the specification's list.
EnabledLayers(st) ==
    {"_load_background"}
    \cup (IF st.background_beat_shake_enabled THEN {"apply_beat_shake"} ELSE {})
    \cup (IF st.background_opacity < 100 THEN {"_apply_opacity"} ELSE {})
    \cup (IF st.background_animation # "none"
          THEN {"apply_background_animation"} ELSE {})
    \cup (IF st.visualizer_enabled THEN {"visualizer.render"} ELSE {})
    \cup (IF st.beat_sync_enabled THEN {BeatEffectOf(st)} ELSE {})
    \cup (IF st.strobe_enabled /\ ~st.beat_sync_enabled
          THEN {"apply_strobe"} ELSE {})
    \cup (IF st.overlay_effect_type # "none"
          THEN {"overlay_effect.render"} ELSE {})
    \cup (IF st.text_overlay # "" THEN {"_add_text_overlay"} ELSE {})
    \cup (IF st.logo_path # "" THEN {"_add_logo"} ELSE {})

\* C1: generate_frame applies its layers in the one fixed order background,
\* beat-shake, background opacity, background animation, visualizer,
\* beat effect or strobe, overlay, text, logo: no operation is applied
\* before one that precedes it in this list, and the returned frame has
\* received exactly the enabled layers.
C1_FixedLayerOrder ==
    /\ \A i, j \in 1..Len(applied) :
          i < j => Rank(applied[i]) < Rank(applied[j])
    /\ gf_pc = "return" => Applied = EnabledLayers(settings)

\* A frame with every layer enabled has been composed.
C1_AllLayersApplied ==
    /\ gf_pc = "return"
    /\ Len(applied) = 9

EffectSteps == {"apply_beat_pulse", "apply_beat_flash", "apply_beat_strobe",
                "apply_beat_zoom", "apply_strobe"}

\* C2: when beat_sync_enabled or strobe_enabled is set, exactly one of the
\* beat-synchronized effect and the plain strobe is applied to the frame,
\* never both, and the plain strobe is skipped whenever beat_sync_enabled
\* is true.
C2_ExactlyOneEffect ==
    /\ Cardinality(Applied \cap EffectSteps) <= 1
    /\ settings.beat_sync_enabled => "apply_strobe" \notin Applied
    /\ (gf_pc = "return"
        /\ (settings.beat_sync_enabled \/ settings.strobe_enabled))
       => Cardinality(Applied \cap EffectSteps) = 1

\* Both switches are set and the frame is finished: the beat effect ran and
\* the strobe block was passed.
C2_BothEnabledFrameDone ==
    /\ gf_pc = "return"
    /\ settings.beat_sync_enabled
    /\ settings.strobe_enabled
    /\ Applied \cap EffectSteps = {BeatEffectOf(settings)}

\* ------------------------------------------------------------------------
\* Properties of generate_frames, assemble_video and generate_video
\* ------------------------------------------------------------------------
\* The frame numbers of [a, b) in increasing order.
FrameRange(a, b) == [i \in 1..(IF b > a THEN b - a ELSE 0) |-> a + i - 1]

\* min(end, totalFrames) of the call, from its arguments.
LastFrame == Min(IF end_arg = NoEnd THEN audio_frames ELSE end_arg,
                 audio_frames)

IsPrefix(p, q) ==
    /\ Len(p) <= Len(q)
    /\ \A i \in 1..Len(p) : p[i] = q[i]

\* C3: generate_frames(start, end) calls generate_frame exactly once for
\* each frame number of [start, min(end, totalFrames)), in increasing order,
\* on the sequential and on the batched path alike, and returns the number
\* of frames it generated.
C3_FramesInOrderAndCounted ==
    caller = "direct"
    => /\ IsPrefix(calls, FrameRange(start_frame, LastFrame))
       /\ vg_pc = "generate_frames_returned"
          => /\ calls = FrameRange(start_frame, LastFrame)
             /\ gf_return = Len(calls)

\* The part of C3 about the sequence of calls, and the returned count for
\* calls with start <= min(end, totalFrames).
C3_FramesInOrder ==
    caller = "direct"
    => /\ IsPrefix(calls, FrameRange(start_frame, LastFrame))
       /\ vg_pc = "generate_frames_returned"
          => /\ calls = FrameRange(start_frame, LastFrame)
             /\ start_frame <= LastFrame => gf_return = Len(calls)

\* What one assemble_video call reported, given its encoder invocations.
Reported(ok) == IF ok THEN "True" ELSE "False"

\* C8: when the encoder invocation fails, assemble_video retries exactly
\* once with hardware acceleration disabled; the encoder is never invoked
\* more than twice, and if the retry also fails assemble_video returns False
\* without further retries.
C8_FailureRetriedOnce ==
    /\ Len(encoder_log) <= 2
    /\ (av_result # "none" /\ ~encoder_log[1].ok)
       => /\ Len(encoder_log) = 2
          /\ ~encoder_log[2].hw
          /\ av_result = Reported(encoder_log[2].ok)

\* C8 as amended: a failed invocation is retried exactly once, with
\* hardware acceleration disabled, when use_hardware_acceleration was set;
\* when it was not set the failure is reported without a retry; the encoder
\* is never invoked more than twice, and a failed retry reports False.
C8_FailureRetriedOnceIfHwAccel ==
    /\ Len(encoder_log) <= 2
    /\ av_result # "none"
       => /\ encoder_log[1].ok
             => (Len(encoder_log) = 1 /\ av_result = "True")
          /\ (~encoder_log[1].ok /\ encoder_log[1].hw)
             => /\ Len(encoder_log) = 2
                /\ ~encoder_log[2].hw
                /\ av_result = Reported(encoder_log[2].ok)
          /\ (~encoder_log[1].ok /\ ~encoder_log[1].hw)
             => (Len(encoder_log) = 1 /\ av_result = "False")

\* The encoder failed with hardware acceleration, was retried without it,
\* failed again, and assemble_video reported the failure.
C8_RetryFailedToo ==
    /\ av_result = "False"
    /\ Len(encoder_log) = 2
    /\ encoder_log[1].hw
    /\ ~encoder_log[2].hw

\* C9: whenever generate_video returns, the temporary frame directory of
\* the run has been removed and temp_dir is None.
C9_TempDirRemovedOnReturn ==
    vg_pc = "generate_video_returned"
    => (temp_dir = "None" /\ ~dir_exists)

\* generate_video returned False after an exception in frame generation: the
\* directory had been created, frames were generated, the encoder never ran.
C9_ReturnedAfterFrameException ==
    /\ vg_pc = "generate_video_returned"
    /\ gv_result = "False"
    /\ Len(calls) > 0
    /\ encoder_log = << >>

\* C10: once cancellation has been requested while generate_video is
\* generating frames, the loop generates no further frame.
C10_CancelStopsGeneration ==
    [][cancel_requested => calls' = calls]_vars

\* C11: the settings dictionary passed to VideoGenerator is read-only for
\* the core: no step of generate_frames, assemble_video or generate_video
\* changes the value of any of its keys.
C11_SettingsNeverMutated ==
    [][settings' = settings]_vars

\* ------------------------------------------------------------------------
\* Properties of AudioProcessor
\* ------------------------------------------------------------------------

\* The stft invocations logged for one (frame_rate, n_fft) tuple.
StftRunsFor(frame_rate, n_fft) ==
    {i \in 1..Len(stft_log) : /\ stft_log[i].frame_rate = frame_rate
                              /\ stft_log[i].n_fft = n_fft}

\* C12: every compute_spectrum call returns the matrix of its own
\* arguments (a time-frame count matching duration * frame_rate, truncated
\* or rounded, and n_fft / 2 + 1 bins), and the STFT of one
\* (frame_rate, n_fft) tuple is run at most once.
C12_SpectrumOncePerTuple ==
    /\ ap_result.op = "compute_spectrum"
       => /\ ap_result.frames \in
                {NumFrames(ap_duration, ap_result.frame_rate),
                 NumFramesRounded(ap_duration, ap_result.frame_rate)}
          /\ ap_result.bins = (ap_result.n_fft \div 2) + 1
    /\ \A r \in SpectrumRates, n \in SpectrumFfts :
          Cardinality(StftRunsFor(r, n)) <= 1

Truncated(num, den) ==
    CHOOSE k \in 0..num : k * den <= num /\ num < (k + 1) * den

FrameQueries == {"get_frame_spectrum", "get_frame_bands"}

\* C14: for a frame_number outside [0, frameCount - 1] the per-frame
\* queries do not raise, and for frame_number >= frameCount they return the
\* data of frame frameCount - 1.
C14_FrameQueriesClamp ==
    (/\ ap_result.op \in FrameQueries
     /\ (ap_result.frame_number < 0
           \/ ap_result.frame_number >= ap_result.frames))
    => /\ ap_result.outcome = "return"
       /\ ap_result.frame_number >= ap_result.frames
          => ap_result.index = ap_result.frames - 1

BeatQueries == {"get_tempo", "get_beat_times", "is_beat_frame",
                "get_beat_strength"}

\* C15: get_beat_strength returns 1.0 on a beat, lies in [0, 1], is
\* strictly decreasing in the distance to the nearest beat below 10 frames,
\* and is 0 from 10 frames on and when the track has no beats.
C15_BeatStrengthDecays ==
    (ap_result.op = "get_beat_strength" /\ ap_result.outcome = "return")
    => LET beats == BeatTimesOf(ap_beat_times)
           rate == ap_result.frame_rate
           dist(f) == MinHalfFrames(f, rate, beats)
       IN  /\ ap_result.number >= 0
           /\ ap_result.number <= StrengthScale
           /\ beats = {} => ap_result.number = 0
           /\ beats # {}
              => /\ dist(ap_result.frame_number) = 0
                    => ap_result.number = StrengthScale
                 /\ dist(ap_result.frame_number) >= 2 * 10
                    => ap_result.number = 0
                 /\ \A g \in BeatQueryFrames :
                       (/\ dist(g) < dist(ap_result.frame_number)
                        /\ dist(ap_result.frame_number) < 2 * 10)
                       => BeatStrength(g, rate, beats) > ap_result.number

\* get_beat_strength was asked about a frame exactly 10 frames from the
\* nearest beat of a track that has beats.
C15_TenFramesFromBeat ==
    /\ ap_result.op = "get_beat_strength"
    /\ ap_result.outcome = "return"
    /\ BeatTimesOf(ap_beat_times) # {}
    /\ MinHalfFrames(ap_result.frame_number, ap_result.frame_rate,
                     BeatTimesOf(ap_beat_times)) = 2 * 10

\* C16: when beat tracking fails, get_tempo, get_beat_times, is_beat_frame
\* and get_beat_strength return 120.0, an empty list, False and 0.0 instead
\* of raising.
C16_BeatFailureFallsBack ==
    (ap_result.op \in BeatQueries /\ ap_beat_times = NoBeats)
    => /\ ap_result.outcome = "return"
       /\ ap_result.op = "get_tempo" => ap_result.number = DefaultTempo
       /\ ap_result.op = "get_beat_times" => ap_result.beats = {}
       /\ ap_result.op = "is_beat_frame" => ~ap_result.flag
       /\ ap_result.op = "get_beat_strength" => ap_result.number = 0

\* ------------------------------------------------------------------------
\* Properties of the transitions
\* ------------------------------------------------------------------------
FadeTransitions == {"fade", "crossfade", "other"}

Unusable == {"empty", "absent", "unreadable"}

\* The background step did not raise and produced an image of the canvas
\* size, solid black when no background file can be used (unless a video
\* background supplied the frame).
BackgroundNeverAborts ==
    ld_pc \in {"add_logo", "returned"}
    => /\ ~ld_background.raised
       /\ Len(ld_background.image.px) = CanvasWidth
       /\ ld_background.image.mode = "RGB"
       /\ (IF Len(slide_files) = 0 THEN bg_file \in Unusable
           ELSE \A i \in 1..Len(slide_files) : slide_files[i] \in Unusable)
          => ld_background.image \in {BlackImage(CanvasWidth), VideoFrame}

\* C17: for every background path the manager returns an image of the
\* canvas size (solid black when the file cannot be used), for every logo
\* path that is missing or unreadable _add_logo returns the frame unchanged,
\* and generate_frame returns a frame.
C17_MissingFilesNeverAbort ==
    /\ BackgroundNeverAborts
    /\ ld_pc = "returned"
       => /\ ~ld_frame.raised
          /\ ld_frame.image # NoImage
          /\ logo_file \in {"absent", "unreadable"}
             => ld_frame = ld_background

\* C17 as amended: the same, the frame being returned unchanged for a
\* missing or unreadable logo path when logo_text is empty; when logo_text
\* is not empty the text logo is drawn whatever the logo path names.
C17_MissingFilesNeverAbortTextLogo ==
    /\ BackgroundNeverAborts
    /\ ld_pc = "returned"
       => /\ ~ld_frame.raised
          /\ ld_frame.image # NoImage
          /\ (logo_file \in {"absent", "unreadable"} /\ ~logo_text)
             => ld_frame = ld_background
          /\ (logo_file \in {"absent", "unreadable"} /\ logo_text)
             => ld_frame.logo = "text"

\* generate_frame returned a frame over a slideshow none of whose files can
\* be used and a logo file that cannot be read.
C17_FrameDespiteBadFiles ==
    /\ ld_pc = "returned"
    /\ Len(slide_files) > 0
    /\ \A i \in 1..Len(slide_files) : slide_files[i] \in Unusable
    /\ logo_file = "unreadable"
    /\ ~logo_text
    /\ ld_frame.image = BlackImage(CanvasWidth)
    /\ ld_frame.logo = "none"

\* The corner an anchor gives a logo of logo_width by logo_height pixels:
\* the margin from the edge the anchor names, centred along the other axis.
AnchorCorner(width, height, logo_width, logo_height, position) ==
    <<CASE position \in {"top-left", "middle-left", "bottom-left"} -> 20
        [] position \in {"top-right", "middle-right", "bottom-right"} ->
              width - 20 - logo_width
        [] OTHER -> (width - logo_width) \div 2,
      CASE position \in {"top-left", "top-center", "top-right"} -> 20
        [] position \in {"bottom-left", "bottom-center", "bottom-right"} ->
              height - 20 - logo_height
        [] OTHER -> (height - logo_height) \div 2>>

\* C22: the last layer of a frame is the logo: the text logo whenever
\* logo_text is not empty, otherwise the image logo whenever logo_path names
\* a readable file, never both; and the corner of the logo is the one of
\* the configured anchor, with a margin of 20 pixels.
C22_LogoOrLogoText ==
    (ld_pc = "returned" /\ ~ld_frame.raised)
    => /\ logo_text => ld_frame.logo = "text"
       /\ (~logo_text /\ logo_file = "valid") => ld_frame.logo = "image"
       /\ \A position \in {"top-left", "top-center", "top-right",
                           "middle-left", "middle-right", "bottom-left",
                           "bottom-center", "bottom-right"},
             size \in {<<640, 360>>, <<1920, 1080>>},
             logo \in {<<36, 36>>, <<108, 54>>} :
             calculate_logo_position(size[1], size[2], logo[1], logo[2],
                                     position)
             = AnchorCorner(size[1], size[2], logo[1], logo[2], position)

\* ------------------------------------------------------------------------
\* Properties of the visualizers
\* ------------------------------------------------------------------------

\* C19: the bands a visualizer draws are normalized by the frame's own
\* maximum: when some band is positive the largest normalized band is
\* exactly 1.0, and when all bands are zero every normalized band is 0.
C19_NormalizedByOwnMaximum ==
    vz_normalized # <<>>
    => /\ Len(vz_normalized) = Len(vz_bands)
       /\ (\E i \in 1..Len(vz_bands) : vz_bands[i] > 0)
          => /\ \E i \in 1..Len(vz_normalized) : vz_normalized[i] = NormScale
             /\ \A i \in 1..Len(vz_normalized) :
                   vz_normalized[i] >= 0 /\ vz_normalized[i] <= NormScale
       /\ (\A i \in 1..Len(vz_bands) : vz_bands[i] = 0)
          => \A i \in 1..Len(vz_normalized) : vz_normalized[i] = 0

\* A frame with a positive band below the maximum was normalized.
C19_UnevenBandsNormalized ==
    /\ vz_normalized # <<>>
    /\ \E i, j \in 1..Len(vz_bands) :
          vz_bands[i] > 0 /\ vz_bands[i] < vz_bands[j]

\* ------------------------------------------------------------------------
\* Properties of the compositor as a whole
\* ------------------------------------------------------------------------

\* C18: two copies with the same settings, audio features and particle state
\* produce, for the same frame number, identical frames and identical
\* successor particle state.
C18_CompositorDeterministic ==
    (dt_frame["a"].rendered /\ dt_frame["b"].rendered)
    => /\ dt_frame["a"] = dt_frame["b"]
       /\ dt_rain["a"] = dt_rain["b"]
       /\ dt_particles["a"] = dt_particles["b"]

\* ------------------------------------------------------------------------
\* Properties of the colour gradients
\* ------------------------------------------------------------------------

\* C21: in the lowest third of the bands the frequency-based gradient
\* returns r = 255, b = 0, alpha = 255 and g = floor(255 * index /
\* (total / 3)); index 0 gives (255, 0, 0, 255) and every other index of
\* the lowest third gives g strictly between 0 and 255.
C21_LowestThirdRedToYellow ==
    (/\ gc_color # NoColor
     /\ gc_settings.color_gradient \in {"frequency-based", "other"}
     /\ 3 * gc_call.index < gc_call.total)
    => /\ gc_color[1] = 255 /\ gc_color[3] = 0 /\ gc_color[4] = 255
       /\ gc_color[2] * gc_call.total <= 255 * 3 * gc_call.index
       /\ 255 * 3 * gc_call.index < (gc_color[2] + 1) * gc_call.total
       /\ gc_call.index = 0 => gc_color = <<255, 0, 0, 255>>
       /\ gc_call.index > 0 => gc_color[2] > 0 /\ gc_color[2] < 255

\* The colour of band 21 of 64 has been computed.
C21_Index21Of64 ==
    /\ gc_color = <<255, 251, 0, 255>>
    /\ gc_settings.color_gradient = "frequency-based"
    /\ gc_call.index = 21 /\ gc_call.total = 64

\* C29: every gradient returns, for every index in [0, total) and every
\* magnitude in [0, 1], r, g and b in 0..255 and alpha 255.
C29_ValidRGBA ==
    gc_color # NoColor
    => /\ \A ch \in 1..3 : gc_color[ch] \in 0..255
       /\ gc_color[4] = 255

\* ------------------------------------------------------------------------
\* Properties of the bar-style visualizers
\* ------------------------------------------------------------------------

\* C25: every rectangle a bar-style visualizer hands to the draw call has
\* x0 <= x1 and y0 <= y1, and no bar is taller than the canvas.
C25_NoInvertedRectangle ==
    \A i \in 1..Len(br_drawn.rects) : \A j \in 1..Len(br_drawn.rects[i]) :
        LET rect == br_drawn.rects[i][j]
        IN  /\ rect[1] <= rect[3]
            /\ rect[2] <= rect[4]
            /\ rect[4] - rect[2] <= br_height

\* ------------------------------------------------------------------------
\* Properties of the particle systems
\* ------------------------------------------------------------------------

\* C24: after any number of update or render calls the particle list holds
\* at most max_particles entries, no particle with life <= 0, and no
\* particle outside the region its style keeps.
C24_ParticlesBounded ==
    /\ Len(ps_particles) <= max_particles(ps_style)
    /\ \A k \in 1..Len(ps_particles) :
          LET p == ps_particles[k]
              int_x == IF p.x >= 0 THEN p.x \div 10 ELSE 0 - ((0 - p.x) \div 10)
              int_y == IF p.y >= 0 THEN p.y \div 10 ELSE 0 - ((0 - p.y) \div 10)
          IN  /\ p.life > 0
              /\ ps_style \in {"rain", "snow"}
                 => p.y < (ps_size[2] + 10) * 10
              /\ ps_style = "bubbles" => p.y > 0 - 200
              /\ ps_style \in {"snow", "bubbles"}
                 => p.x >= 0 /\ p.x <= ps_size[1] * 10
              /\ ps_style \in {"particle", "waveform_particle"}
                 => /\ int_x >= 0 /\ int_x < ps_size[1]
                    /\ int_y >= 0 /\ int_y < ps_size[2]

\* The rain has reached max_particles and a call has been made since.
C24_RainAtCap ==
    /\ ps_style = "rain"
    /\ Len(ps_particles) = 200
    /\ ps_calls > 40

\* ------------------------------------------------------------------------
\* Properties of the image modes along generate_frame
\* ------------------------------------------------------------------------

\* C30: generate_frame succeeds under every combination of its settings
\* and for every frame: each blend or composite step gets two images of
\* the same mode, and nothing is raised.
C30_BlendOperandsMatch ==
    /\ md_pc # "raised"
    /\ \A k \in 1..Len(md_ops) : md_ops[k][1] = md_ops[k][2]

\* ------------------------------------------------------------------------
\* Properties of the main window and its threads
\* ------------------------------------------------------------------------

\* C26: in every interleaving of the GUI actions, no two of the
\* PreviewFrameGenerator and VideoGenerationThread threads are inside
\* generate_frame of the same VideoGenerator instance at once.
C26_OneThreadPerGenerator ==
    \A j, k \in 1..Len(mw_threads) :
        (/\ j # k
         /\ mw_threads[j].pc = "generate_frame"
         /\ mw_threads[k].pc = "generate_frame")
        => mw_threads[j].video_generator # mw_threads[k].video_generator

====
